---- MODULE Spec2Model ----
(***************************************************************************)
(* A model of the request/response helper layer of the k6 performance test *)
(* framework: RequestBuilder (src/src/helpers/request-builder.ts) and      *)
(* ResponseValidator (listed in src/CONTRIBUTING.md).                      *)
(*                                                                         *)
(* JavaScript strings that are taken apart by the code (URLs, endpoints,   *)
(* query keys and values) are sequences of one-character strings.  Header  *)
(* names and values are never taken apart, so they are TLA+ strings.       *)
(* JavaScript objects live in a heap: a builder holds the address of its   *)
(* header object, so that sharing an object between two builders is        *)
(* something the model can express.                                        *)
(***************************************************************************)
EXTENDS Integers, Sequences, FiniteSets, TLC

VARIABLES
    builders,   \* builder id -> the RequestBuilder instance held in that slot
    heap,       \* address -> header object (Record<string, string>)
    own,        \* builder id -> the headers its own operations alone produce
    last,       \* the last call made: operation, builder, outcome, result
    arg,        \* the arguments the caller has at hand for URL building
    held,       \* the header mapping a caller kept from getHeaders()
    logger,     \* the Logger instance: its context and its logLevel
    environmentConfigs,  \* the module's table of configurations, by environment
    ENV,        \* the process environment variables of the run (__ENV)
    config      \* the environment whose configuration object a caller keeps

vars == <<builders, heap, own, last, arg, held, logger, environmentConfigs, ENV, config>>

\* what the request builder and the validator leave alone
elsewhere == <<logger, environmentConfigs, ENV, config>>

----------------------------------------------------------------------------
(* Bounds of the model.                                                    *)

MaxTrailing == 2        \* "/" characters appended to a base URL input
MaxEntries == 2         \* entries of a setHeaders argument
MaxParams == 2          \* entries of a queryParams argument
MaxFields == 2          \* names in a list of required fields, fields in a schema
MaxStatus == 700        \* status codes range over -MaxStatus..MaxStatus
MaxDuration == 3        \* durations range over -MaxDuration..MaxDuration

\* Two builder instances (a builder and its clone, or two builders built
\* apart), and one header object for each.
BuilderIds == {"b1", "b2"}
Addrs == {"h1", "h2"}

----------------------------------------------------------------------------
(* JavaScript values.                                                      *)

JsNull == "<null>"              \* the value null, where a string is expected
JsUndefined == "<undefined>"    \* the value undefined, likewise

\* tagged values, where a value of any type may stand
Str(s) == [t |-> "string", s |-> s]
Num(n) == [t |-> "number", n |-> n]
Bool(v) == [t |-> "boolean", v |-> v]
NullV == [t |-> "null"]
UndefV == [t |-> "undefined"]
FunctionV == [t |-> "function"]
NaN == [t |-> "number", nan |-> TRUE]

\* a < b and a <= b on numbers: false when either side is NaN
IsNaN(x) == "nan" \in DOMAIN x
JsLess(a, b) == ~IsNaN(a) /\ ~IsNaN(b) /\ a.n < b.n
JsLessOrEqual(a, b) == ~IsNaN(a) /\ ~IsNaN(b) /\ a.n <= b.n
Obj(entries) == [t |-> "object", e |-> entries]     \* entries: <<[k, v], ...>>
Arr(items) == [t |-> "array", a |-> items]

\* the typeof operator
TypeOf(v) == IF v.t \in {"null", "array"} THEN "object" ELSE v.t

\* HTTP_STATUS
SUCCESS_MIN == 200
SUCCESS_MAX == 299
CLIENT_ERROR_MIN == 400
CLIENT_ERROR_MAX == 499
SERVER_ERROR_MIN == 500
SERVER_ERROR_MAX == 599

\* ContentType enum
ContentTypeJSON == "application/json"
ContentTypeXML == "application/xml"

\* ERROR_MESSAGES
INVALID_URL == "Invalid URL format provided"
INVALID_JSON == "Invalid JSON format"
MISSING_REQUIRED_FIELD == "Required field is missing"
EMPTY_RESPONSE == "Response body is empty"

----------------------------------------------------------------------------
(* Strings as sequences of characters.                                     *)

Letters == {"h", "t", "p", "a"}

EndsWith(s, c) == Len(s) > 0 /\ s[Len(s)] = c
StartsWith(s, c) == Len(s) > 0 /\ s[1] = c

\* String.prototype.slice(0, -1)
SliceDropLast(s) == SubSeq(s, 1, Len(s) - 1)

\* index of the first occurrence of c in s, 0 when there is none
IndexOf(s, c) ==
    IF \E i \in 1..Len(s) : s[i] = c
    THEN CHOOSE i \in 1..Len(s) : s[i] = c /\ \A j \in 1..(i - 1) : s[j] # c
    ELSE 0

RECURSIVE Repeat(_, _)
Repeat(c, n) == IF n = 0 THEN <<>> ELSE <<c>> \o Repeat(c, n - 1)

RECURSIVE SkipLeading(_, _)
SkipLeading(s, c) == IF StartsWith(s, c) THEN SkipLeading(Tail(s), c) ELSE s

\* new URL(url) with no base: TRUE iff the WHATWG parser accepts the string.
\* A scheme (letters, then ":") is required.  For the special scheme "http"
\* every leading "/" is skipped and the host must not be empty; for another
\* scheme an authority is parsed only after "//".  A port must be digits,
\* and the alphabet has none, so a port must be empty.
AuthorityOk(r, hostMayBeEmpty) ==
    LET slash == IndexOf(r, "/")
        auth == IF slash = 0 THEN r ELSE SubSeq(r, 1, slash - 1)
        colon == IndexOf(auth, ":")
        host == IF colon = 0 THEN auth ELSE SubSeq(auth, 1, colon - 1)
        port == IF colon = 0 THEN <<>> ELSE SubSeq(auth, colon + 1, Len(auth))
    IN  /\ port = <<>>
        /\ (host = <<>>) => (hostMayBeEmpty /\ colon = 0)

ParsesAsUrl(url) ==
    LET colon == IndexOf(url, ":")
        scheme == SubSeq(url, 1, colon - 1)
        rest == SubSeq(url, colon + 1, Len(url))
    IN  /\ colon >= 2
        /\ \A i \in 1..(colon - 1) : url[i] \in Letters
        /\ IF scheme = <<"h", "t", "t", "p">>
           THEN AuthorityOk(SkipLeading(rest, "/"), FALSE)
           ELSE (Len(rest) >= 2 /\ rest[1] = "/" /\ rest[2] = "/")
                    => AuthorityOk(SubSeq(rest, 3, Len(rest)), TRUE)

----------------------------------------------------------------------------
(* Errors: the class, the literal text of the message and the value the   *)
(* message interpolates.                                                   *)

NoError == [name |-> "none", text |-> "", about |-> [t |-> "none"]]
Threw(e) == e.name # "none"

\* throw new Error(`${ERROR_MESSAGES.INVALID_URL}: ${url}`)
InvalidUrlError(url) == [name |-> "Error", text |-> INVALID_URL, about |-> Str(url)]

\* reading a property of undefined: this.logger.error with this.logger unset
UndefinedReadError(prop) ==
    [name |-> "TypeError", text |-> "Cannot read properties of undefined",
     about |-> [t |-> "property", p |-> prop]]

\* throw new Error("Header key cannot be empty")
HeaderKeyError ==
    [name |-> "Error", text |-> "Header key cannot be empty", about |-> [t |-> "none"]]

\* throw new Error(`Header value for '${key}' cannot be null or undefined`)
HeaderValueError(key) ==
    [name |-> "Error", text |-> "Header value cannot be null or undefined",
     about |-> [t |-> "key", k |-> key]]

----------------------------------------------------------------------------
(* Header objects: a JavaScript object is an insertion-ordered list of     *)
(* entries with one entry per key.                                         *)

Entry(k, v) == [k |-> k, v |-> v]

Keys(h) == {h[i].k : i \in 1..Len(h)}
HasKey(h, k) == \E i \in 1..Len(h) : h[i].k = k
Lookup(h, k) == IF HasKey(h, k) THEN h[CHOOSE i \in 1..Len(h) : h[i].k = k].v ELSE JsUndefined

\* obj[key] = value: overwrite in place, or append a new entry
Assign(h, k, v) ==
    IF HasKey(h, k)
    THEN [i \in 1..Len(h) |-> IF h[i].k = k THEN Entry(k, v) ELSE h[i]]
    ELSE Append(h, Entry(k, v))

\* delete obj[key]
RECURSIVE Delete(_, _)
Delete(h, k) ==
    IF h = <<>> THEN <<>>
    ELSE IF Head(h).k = k THEN Delete(Tail(h), k)
    ELSE <<Head(h)>> \o Delete(Tail(h), k)

\* the object literal of the constructor and of clearHeaders
DefaultHeaders == <<Entry("Content-Type", ContentTypeJSON), Entry("Accept", ContentTypeJSON)>>

\* String.prototype.trim on the header names of the model
Trim(key) == IF key \in {" ", "  "} THEN "" ELSE key

----------------------------------------------------------------------------
(* RequestBuilder: the methods as functions of the fields they read.        *)

\* validateUrl; logger is the value of this.logger when it runs
validateUrl(url, thisLogger) ==
    IF ParsesAsUrl(url) THEN NoError
    ELSE IF thisLogger = JsUndefined THEN UndefinedReadError("error")
    ELSE InvalidUrlError(url)

\* the constructor up to the assignment of this.baseUrl; this.logger is
\* assigned last, so validateUrl runs while it is still undefined
Constructor(url) ==
    LET e == validateUrl(url, JsUndefined)
    IN  IF Threw(e) THEN [err |-> e, baseUrl |-> <<>>]
        ELSE [err |-> NoError,
              baseUrl |-> IF EndsWith(url, "/") THEN SliceDropLast(url) ELSE url]

\* setHeader without the trim: only `!key` rejects a key
setHeaderUntrimmed(h, key, value) ==
    IF key = "" THEN [err |-> HeaderKeyError, h |-> h]
    ELSE IF value = JsNull \/ value = JsUndefined THEN [err |-> HeaderValueError(key), h |-> h]
    ELSE [err |-> NoError, h |-> Assign(h, key, value)]

\* String.prototype.toLowerCase on the header names of the model
Lower(key) ==
    CASE key = "Content-Type" -> "content-type"
      [] key = "X-Custom" -> "x-custom"
      [] key = "Accept" -> "accept"
      [] key = "Authorization" -> "authorization"
      [] OTHER -> key

\* a setHeader that stores the key in lower case
setHeaderLowercased(h, key, value) ==
    IF key = "" \/ Trim(key) = "" THEN [err |-> HeaderKeyError, h |-> h]
    ELSE IF value = JsNull \/ value = JsUndefined THEN [err |-> HeaderValueError(key), h |-> h]
    ELSE [err |-> NoError, h |-> Assign(h, Lower(key), value)]

\* setHeader on a header object: the error thrown, and the object afterwards
setHeader(h, key, value) ==
    IF key = "" \/ Trim(key) = "" THEN [err |-> HeaderKeyError, h |-> h]
    ELSE IF value = JsNull \/ value = JsUndefined THEN [err |-> HeaderValueError(key), h |-> h]
    ELSE [err |-> NoError, h |-> Assign(h, key, value)]

\* a setHeaders that applies nothing unless every entry is accepted
RECURSIVE setHeadersAllOrNothing(_, _)
setHeadersAllOrNothing(h, entries) ==
    IF entries = <<>> THEN [err |-> NoError, h |-> h]
    ELSE LET r == setHeader(h, Head(entries).k, Head(entries).v)
             rest == setHeadersAllOrNothing(r.h, Tail(entries))
         IN  IF Threw(r.err) THEN r
             ELSE IF Threw(rest.err) THEN [err |-> rest.err, h |-> h]
             ELSE rest

\* setHeaders: Object.entries(headers).forEach(setHeader); a throw ends the loop
RECURSIVE setHeaders(_, _)
setHeaders(h, entries) ==
    IF entries = <<>> THEN [err |-> NoError, h |-> h]
    ELSE LET r == setHeader(h, Head(entries).k, Head(entries).v)
         IN  IF Threw(r.err) THEN r ELSE setHeaders(r.h, Tail(entries))

setContentType(h, contentType) == setHeader(h, "Content-Type", contentType)

\* btoa on the credentials of the model: the base64 text of the string
btoa(text) ==
    CASE text = "user:pass" -> "dXNlcjpwYXNz"
      [] text = "u:p" -> "dTpw"
      [] OTHER -> "<base64>"

\* a setBearerToken that writes under a key of its own
setBearerTokenOwnKey(h, token) == setHeader(h, "authorization", "Bearer " \o token)

\* setBearerToken: setHeader("Authorization", `Bearer ${token}`)
setBearerToken(h, token) == setHeader(h, "Authorization", "Bearer " \o token)

\* setBasicAuth: setHeader("Authorization", `Basic ${btoa(`${username}:${password}`)}`)
setBasicAuth(h, username, password) ==
    LET encoded == btoa(username \o ":" \o password)
    IN  setHeader(h, "Authorization", "Basic " \o encoded)

removeHeader(h, key) == [err |-> NoError, h |-> Delete(h, key)]

\* encodeURIComponent, character by character: letters are kept, the
\* reserved characters of the model become their %XX escapes
EncodeChar(c) ==
    CASE c = "&" -> <<"%", "2", "6">>
      [] c = "=" -> <<"%", "3", "D">>
      [] c = "?" -> <<"%", "3", "F">>
      [] c = "/" -> <<"%", "2", "F">>
      [] c = ":" -> <<"%", "3", "A">>
      [] c = " " -> <<"%", "2", "0">>
      [] OTHER -> <<c>>

RECURSIVE encodeURIComponent(_)
encodeURIComponent(s) ==
    IF s = <<>> THEN <<>> ELSE EncodeChar(Head(s)) \o encodeURIComponent(Tail(s))

\* Array.prototype.join(sep) on strings
RECURSIVE Join(_, _)
Join(parts, sep) ==
    IF parts = <<>> THEN <<>>
    ELSE IF Len(parts) = 1 THEN parts[1]
    ELSE parts[1] \o sep \o Join(Tail(parts), sep)

\* a filter that forgets the empty string
IsValidParamKeepsEmpty(e) == e.v.t # "null" /\ e.v.t # "undefined"

\* the filter of buildUrl: value !== null && value !== undefined && value !== ""
IsValidParam(e) == e.v.t # "null" /\ e.v.t # "undefined" /\ e.v # Str(<<>>)

\* `${encodeURIComponent(key)}=${encodeURIComponent(value)}`
EncodePair(e) == encodeURIComponent(e.k) \o <<"=">> \o encodeURIComponent(e.v.s)

\* a buildUrl that leaves the empty endpoint as it is
buildUrlKeepsEmpty(baseUrl, endpoint, queryParams) ==
    LET normalizedEndpoint == IF endpoint = <<>> \/ StartsWith(endpoint, "/")
                              THEN endpoint ELSE <<"/">> \o endpoint
        url == baseUrl \o normalizedEndpoint
    IN  IF queryParams.t # "object" \/ Len(queryParams.e) = 0 THEN url
        ELSE LET validParams == SelectSeq(queryParams.e, IsValidParam)
             IN  IF Len(validParams) = 0 THEN url
                 ELSE url \o <<"?">> \o
                      Join([i \in 1..Len(validParams) |-> EncodePair(validParams[i])], <<"&">>)

\* a buildUrl that prepends "/" to every endpoint
buildUrlAlwaysPrepends(baseUrl, endpoint, queryParams) ==
    LET normalizedEndpoint == <<"/">> \o endpoint
        url == baseUrl \o normalizedEndpoint
    IN  IF queryParams.t # "object" \/ Len(queryParams.e) = 0 THEN url
        ELSE LET validParams == SelectSeq(queryParams.e, IsValidParam)
             IN  IF Len(validParams) = 0 THEN url
                 ELSE url \o <<"?">> \o
                      Join([i \in 1..Len(validParams) |-> EncodePair(validParams[i])], <<"&">>)

\* buildUrl(endpoint, queryParams) of a builder whose base URL is baseUrl;
\* queryParams is undefined, null or an object
buildUrl(baseUrl, endpoint, queryParams) ==
    LET normalizedEndpoint == IF StartsWith(endpoint, "/") THEN endpoint ELSE <<"/">> \o endpoint
        url == baseUrl \o normalizedEndpoint
    IN  IF queryParams.t # "object" \/ Len(queryParams.e) = 0 THEN url
        ELSE LET validParams == SelectSeq(queryParams.e, IsValidParam)
             IN  IF Len(validParams) = 0 THEN url
                 ELSE url \o <<"?">> \o
                      Join([i \in 1..Len(validParams) |-> EncodePair(validParams[i])], <<"&">>)

----------------------------------------------------------------------------
(* ResponseValidator: the static methods.  A method that can throw gives   *)
(* the error with its result.                                              *)

\* String.prototype.trim on a string of characters
RECURSIVE TrimStart(_)
TrimStart(s) == IF StartsWith(s, " ") THEN TrimStart(Tail(s)) ELSE s
RECURSIVE TrimEnd(_)
TrimEnd(s) == IF EndsWith(s, " ") THEN TrimEnd(SliceDropLast(s)) ELSE s
TrimChars(s) == TrimEnd(TrimStart(s))

\* the members every object inherits from Object.prototype, among the
\* field names of the model
InheritedProps == {"toString"}

\* the operands of `in` and of a property read must be objects
IsObject(v) == v.t \in {"object", "array"}

\* Object.keys(v).length
KeyCount(v) == IF v.t = "object" THEN Len(v.e) ELSE IF v.t = "array" THEN Len(v.a) ELSE 0

\* field in response, for an object or an array: own or inherited property
HasProperty(response, field) ==
    \/ response.t = "object" /\ HasKey(response.e, field)
    \/ field \in InheritedProps

\* response[field], for an object or an array
GetProperty(response, field) ==
    IF response.t = "object" /\ HasKey(response.e, field)
    THEN response.e[CHOOSE i \in 1..Len(response.e) : response.e[i].k = field].v
    ELSE IF field \in InheritedProps THEN FunctionV
    ELSE UndefV

\* `field in response` on null, undefined or a primitive
InOperatorError ==
    [name |-> "TypeError", text |-> "Cannot use 'in' operator", about |-> [t |-> "none"]]

\* a range check that leaves out its upper end
isSuccessfulExclusive(statusCode) == statusCode >= SUCCESS_MIN /\ statusCode < SUCCESS_MAX

isSuccessful(statusCode) == statusCode >= SUCCESS_MIN /\ statusCode <= SUCCESS_MAX

isClientError(statusCode) == statusCode >= CLIENT_ERROR_MIN /\ statusCode <= CLIENT_ERROR_MAX

isServerError(statusCode) == statusCode >= SERVER_ERROR_MIN /\ statusCode <= SERVER_ERROR_MAX

\* a hasRequiredFields whose valid is always "nothing is missing"
hasRequiredFieldsValidByMissing(response, fields) ==
    IF TypeOf(response) # "object" \/ response.t = "null"
    THEN [valid |-> Len(fields) = 0, missing |-> fields]
    ELSE LET missingFields == SelectSeq(fields, LAMBDA field : ~HasProperty(response, field))
         IN  [valid |-> Len(missingFields) = 0, missing |-> missingFields]

hasRequiredFields(response, fields) ==
    IF TypeOf(response) # "object" \/ response.t = "null"
    THEN [valid |-> FALSE, missing |-> fields]
    ELSE LET missingFields == SelectSeq(fields, LAMBDA field : ~HasProperty(response, field))
         IN  [valid |-> Len(missingFields) = 0, missing |-> missingFields]

\* validateRequiredFields(response, fields): present, and not null or undefined
validateRequiredFields(response, fields) ==
    IF TypeOf(response) # "object" \/ response.t = "null"
    THEN [valid |-> FALSE, message |-> INVALID_JSON,
          details |-> [expectedFields |-> fields]]
    ELSE LET IsMissing(field) == ~HasProperty(response, field)
             IsNull(field) == /\ HasProperty(response, field)
                              /\ GetProperty(response, field).t \in {"null", "undefined"}
             missingFields == SelectSeq(fields, IsMissing)
             nullFields == SelectSeq(fields, IsNull)
             isValid == Len(missingFields) = 0 /\ Len(nullFields) = 0
         IN  [valid |-> isValid,
              message |-> IF isValid THEN "All required fields present and valid"
                          ELSE MISSING_REQUIRED_FIELD,
              details |-> [missingFields |-> missingFields, nullFields |-> nullFields]]

\* a threshold compared with <
meetsPerformanceThresholdsStrict(responseTime, threshold) ==
    IF JsLess(responseTime, Num(0)) \/ JsLess(threshold, Num(0)) THEN FALSE
    ELSE JsLess(responseTime, threshold)

\* meetsPerformanceThresholds(responseTime, threshold)
meetsPerformanceThresholds(responseTime, threshold) ==
    IF JsLess(responseTime, Num(0)) \/ JsLess(threshold, Num(0)) THEN FALSE
    ELSE LET meetsThreshold == JsLessOrEqual(responseTime, threshold)
         IN  meetsThreshold

hasResponseBody(body) ==
    IF body.t = "null" \/ body.t = "undefined" THEN FALSE
    ELSE IF TypeOf(body) = "string" /\ TrimChars(body.s) = <<>> THEN FALSE
    ELSE IF TypeOf(body) = "object" /\ KeyCount(body) = 0 THEN FALSE
    ELSE TRUE

hasExpectedType(response, field, expectedType) ==
    IF ~IsObject(response) THEN [err |-> InOperatorError, ret |-> FALSE]
    ELSE IF ~HasProperty(response, field) THEN [err |-> NoError, ret |-> FALSE]
    ELSE LET value == GetProperty(response, field)
             actualType == IF value.t = "array" THEN "array" ELSE TypeOf(value)
         IN  [err |-> NoError, ret |-> actualType = expectedType]

\* the entries of details.errors
StatusCodeMessage(statusCode) == [text |-> "Invalid status code", about |-> Num(statusCode)]
EmptyResponseMessage == [text |-> EMPTY_RESPONSE, about |-> [t |-> "none"]]
MissingFieldsMessage(missing) ==
    [text |-> "Missing required fields", about |-> [t |-> "fields", f |-> missing]]
FieldFailedMessage(field) ==
    [text |-> "Field validation failed", about |-> [t |-> "field", f |-> field]]

\* validateSchema: Object.entries(schema).forEach(hasExpectedType); a throw
\* ends the loop and the call
RECURSIVE SchemaErrors(_, _, _)
SchemaErrors(response, schema, errors) ==
    IF schema = <<>> THEN [err |-> NoError, errors |-> errors]
    ELSE LET r == hasExpectedType(response, Head(schema).k, Head(schema).v)
         IN  IF Threw(r.err) THEN [err |-> r.err, errors |-> errors]
             ELSE SchemaErrors(response, Tail(schema),
                               IF r.ret THEN errors ELSE Append(errors, FieldFailedMessage(Head(schema).k)))

validateSchema(response, schema) ==
    LET r == SchemaErrors(response, schema, <<>>)
    IN  [err |-> r.err,
         ret |-> [valid |-> Len(r.errors) = 0,
                  message |-> IF Len(r.errors) = 0 THEN "Schema validation passed"
                              ELSE "Schema validation failed",
                  errors |-> r.errors]]

\* a validateResponse that returns at the first failure
validateResponseShortCircuit(statusCode, body, requiredFields, maxDuration) ==
    LET errors ==
          IF ~isSuccessful(statusCode) THEN <<StatusCodeMessage(statusCode)>>
          ELSE IF ~hasResponseBody(body) THEN <<EmptyResponseMessage>>
          ELSE IF requiredFields.t = "array" /\ Len(requiredFields.a) > 0
                  /\ ~hasRequiredFields(body, requiredFields.a).valid
               THEN <<MissingFieldsMessage(hasRequiredFields(body, requiredFields.a).missing)>>
          ELSE <<>>
    IN  [valid |-> Len(errors) = 0,
         message |-> IF Len(errors) = 0 THEN "Response validation passed"
                     ELSE "Response validation failed",
         errors |-> errors]

\* a validateResponse that holds a given maxDuration against a duration of 0
validateResponseEnforcing(statusCode, body, requiredFields, maxDuration) ==
    LET errors1 == IF ~isSuccessful(statusCode) THEN <<StatusCodeMessage(statusCode)>> ELSE <<>>
        errors2 == IF ~hasResponseBody(body) THEN Append(errors1, EmptyResponseMessage) ELSE errors1
        errors3 == IF requiredFields.t = "array" /\ Len(requiredFields.a) > 0
                      /\ ~hasRequiredFields(body, requiredFields.a).valid
                   THEN Append(errors2,
                               MissingFieldsMessage(hasRequiredFields(body, requiredFields.a).missing))
                   ELSE errors2
        errors4 == IF maxDuration.t = "number" /\ ~meetsPerformanceThresholds(Num(0), maxDuration)
                   THEN Append(errors3, [text |-> "Performance threshold exceeded",
                                         about |-> [t |-> "none"]])
                   ELSE errors3
    IN  [valid |-> Len(errors4) = 0,
         message |-> IF Len(errors4) = 0 THEN "Response validation passed"
                     ELSE "Response validation failed",
         errors |-> errors4]

\* validateResponse(statusCode, body, requiredFields?, maxDuration?)
\* a validateResponse that never looks at requiredFields
validateResponseSkipsFields(statusCode, body, requiredFields, maxDuration) ==
    LET errors1 == IF ~isSuccessful(statusCode) THEN <<StatusCodeMessage(statusCode)>> ELSE <<>>
        errors2 == IF ~hasResponseBody(body) THEN Append(errors1, EmptyResponseMessage) ELSE errors1
    IN  [valid |-> Len(errors2) = 0,
         message |-> IF Len(errors2) = 0 THEN "Response validation passed"
                     ELSE "Response validation failed",
         errors |-> errors2]

validateResponse(statusCode, body, requiredFields, maxDuration) ==
    LET errors1 == IF ~isSuccessful(statusCode) THEN <<StatusCodeMessage(statusCode)>> ELSE <<>>
        errors2 == IF ~hasResponseBody(body) THEN Append(errors1, EmptyResponseMessage) ELSE errors1
        errors3 == IF requiredFields.t = "array" /\ Len(requiredFields.a) > 0
                   THEN LET fieldValidation == hasRequiredFields(body, requiredFields.a)
                        IN  IF ~fieldValidation.valid
                            THEN Append(errors2, MissingFieldsMessage(fieldValidation.missing))
                            ELSE errors2
                   ELSE errors2
    IN  [valid |-> Len(errors3) = 0,
         message |-> IF Len(errors3) = 0 THEN "Response validation passed"
                     ELSE "Response validation failed",
         errors |-> errors3]

----------------------------------------------------------------------------
(* The builders as a state machine.                                        *)

NoBuilder == [live |-> FALSE, baseUrl |-> <<>>, headers |-> "none"]
NoResult == [t |-> "none"]

\* no mapping kept: a is the address of the kept object, h its contents
\* when it is an object of the caller's own
NoHeld == [a |-> "none", h |-> <<>>]

Live == {b \in BuilderIds : builders[b].live}

\* what getHeaders() of builder b returns: { ...this.headers }
getHeaders(b) == heap[builders[b].headers]

\* getBaseUrl()
getBaseUrl(b) == builders[b].baseUrl

\* the address of a newly created object: one no other builder refers to
Fresh(b) == CHOOSE a \in Addrs : \A c \in Live \ {b} : builders[c].headers # a

\* the header objects after builder b was given the object h at address a:
\* an object that no builder refers to any more is dropped
Store(bs, a, h) ==
    [x \in Addrs |-> IF x = a THEN h
                     ELSE IF \E c \in BuilderIds : bs[c].live /\ bs[c].headers = x
                          THEN heap[x] ELSE <<>>]

Called(op, b, err, ret) ==
    /\ last' = [op |-> op, b |-> b, err |-> err, ret |-> ret]
    /\ UNCHANGED <<arg, held, elsewhere>>

\* the slot the next builder goes to
FirstFree == IF ~builders["b1"].live THEN "b1" ELSE "b2"

\* new RequestBuilder(url), kept in slot b
New(b, url) ==
    /\ ~builders[b].live
    /\ b = FirstFree
    /\ LET c == Constructor(url)
           a == Fresh(b)
           bs == [builders EXCEPT ![b] = [live |-> TRUE, baseUrl |-> c.baseUrl, headers |-> a]]
       IN  /\ IF Threw(c.err)
              THEN UNCHANGED <<builders, heap, own>>
              ELSE /\ builders' = bs
                   /\ heap' = Store(bs, a, DefaultHeaders)
                   /\ own' = [own EXCEPT ![b] = DefaultHeaders]
           /\ Called("new", b, c.err, Str(url))

\* a clone that keeps the reference: newBuilder.headers = this.headers
CloneHeadersShared(source, fresh) == source

\* where the header object of a clone lives: newBuilder.headers = { ...this.headers }
\* is a new object
CloneHeaders(source, fresh) == fresh

\* c = b.clone(): a new builder from this.baseUrl, then a copy of the headers
Clone(b, c) ==
    /\ builders[b].live
    /\ ~builders[c].live
    /\ c = FirstFree
    /\ LET n == Constructor(builders[b].baseUrl)
           a == CloneHeaders(builders[b].headers, Fresh(c))
           bs == [builders EXCEPT ![c] = [live |-> TRUE, baseUrl |-> n.baseUrl, headers |-> a]]
       IN  /\ IF Threw(n.err)
              THEN UNCHANGED <<builders, heap, own>>
              ELSE /\ builders' = bs
                   /\ heap' = Store(bs, a, getHeaders(b))
                   /\ own' = [own EXCEPT ![c] = getHeaders(b)]
           /\ Called("clone", c, n.err, [t |-> "builder", from |-> b])

\* return this
This(b) == [t |-> "this", b |-> b]

\* a header method of builder b whose effect on a header object is f:
\* the object is changed in place
Mutate(op, b, onHeap, onOwn) ==
    /\ builders[b].live
    /\ heap' = [heap EXCEPT ![builders[b].headers] = onHeap.h]
    /\ own' = [own EXCEPT ![b] = onOwn.h]
    /\ UNCHANGED builders
    /\ Called(op, b, onHeap.err, IF Threw(onHeap.err) THEN NoResult ELSE This(b))

SetHeader(b, key, value) ==
    Mutate("setHeader", b, setHeader(getHeaders(b), key, value), setHeader(own[b], key, value))

SetHeaders(b, entries) ==
    Mutate("setHeaders", b, setHeaders(getHeaders(b), entries), setHeaders(own[b], entries))

SetContentType(b, contentType) ==
    Mutate("setContentType", b, setContentType(getHeaders(b), contentType),
           setContentType(own[b], contentType))

SetBearerToken(b, token) ==
    Mutate("setBearerToken", b, setBearerToken(getHeaders(b), token), setBearerToken(own[b], token))

SetBasicAuth(b, username, password) ==
    Mutate("setBasicAuth", b, setBasicAuth(getHeaders(b), username, password),
           setBasicAuth(own[b], username, password))

RemoveHeader(b, key) ==
    Mutate("removeHeader", b, removeHeader(getHeaders(b), key), removeHeader(own[b], key))

\* a clearHeaders that deletes the custom entries and leaves Content-Type
\* and Accept as they are
ClearHeadersKeepsDefaults(b) ==
    LET Default(e) == e.k \in {"Content-Type", "Accept"}
    IN  Mutate("clearHeaders", b, [err |-> NoError, h |-> SelectSeq(getHeaders(b), Default)],
               [err |-> NoError, h |-> SelectSeq(own[b], Default)])

\* clearHeaders(): this.headers is given a new object
ClearHeaders(b) ==
    /\ builders[b].live
    /\ LET a == Fresh(b)
           bs == [builders EXCEPT ![b].headers = a]
       IN  /\ builders' = bs
           /\ heap' = Store(bs, a, DefaultHeaders)
    /\ own' = [own EXCEPT ![b] = DefaultHeaders]
    /\ Called("clearHeaders", b, NoError, This(b))

\* getHeaders() / getRequestHeaders()
GetHeaders(b) ==
    /\ builders[b].live
    /\ UNCHANGED <<builders, heap, own>>
    /\ Called("getHeaders", b, NoError, [t |-> "headers", h |-> getHeaders(b)])

\* the alias: getRequestHeaders() returns this.getHeaders()
getRequestHeaders(b) == getHeaders(b)

\* the address of the object a caller of getHeaders is handed
ReturnedAddr == "r1"

\* a getHeaders that hands out the builder's own object: return this.headers
ReturnedHeadersShared(source, fresh) == source

\* where the object returned by getHeaders lives: { ...this.headers } is a
\* new object
ReturnedHeaders(source, fresh) == fresh

\* the contents of the object the caller keeps
HeldObject == IF held.a \in Addrs THEN heap[held.a] ELSE held.h

\* kept = b.getHeaders() or b.getRequestHeaders(): the caller keeps the result
KeepHeaders(b, op) ==
    /\ builders[b].live
    /\ LET h == IF op = "getHeaders" THEN getHeaders(b) ELSE getRequestHeaders(b)
       IN  /\ held' = [a |-> ReturnedHeaders(builders[b].headers, ReturnedAddr), h |-> h]
           /\ last' = [op |-> op, b |-> b, err |-> NoError, ret |-> [t |-> "headers", h |-> h]]
    /\ UNCHANGED <<builders, heap, own, arg, elsewhere>>

\* the caller changes the object it keeps into h: in place, wherever it lives
CallerWrites(op, h) ==
    /\ held.a # "none"
    /\ IF held.a \in Addrs
       THEN heap' = [heap EXCEPT ![held.a] = h] /\ UNCHANGED held
       ELSE held' = [held EXCEPT !.h = h] /\ UNCHANGED heap
    /\ last' = [op |-> op, b |-> "none", err |-> NoError, ret |-> NoResult]
    /\ UNCHANGED <<builders, own, arg, elsewhere>>

\* kept[key] = value
CallerAssign(key, value) == CallerWrites("callerAssign", Assign(HeldObject, key, value))

\* delete kept[key]
CallerDelete(key) == CallerWrites("callerDelete", Delete(HeldObject, key))

\* getBaseUrl()
GetBaseUrl(b) ==
    /\ builders[b].live
    /\ UNCHANGED <<builders, heap, own>>
    /\ Called("getBaseUrl", b, NoError, Str(getBaseUrl(b)))

\* getRequestHeaders()
GetRequestHeaders(b) ==
    /\ builders[b].live
    /\ UNCHANGED <<builders, heap, own>>
    /\ Called("getRequestHeaders", b, NoError, [t |-> "headers", h |-> getRequestHeaders(b)])

\* a buildUrl that keeps the URL it built as the base of the next one
BuildUrlKeepsUrl(b, endpoint, queryParams) ==
    /\ builders[b].live
    /\ builders' = [builders EXCEPT
                      ![b].baseUrl = buildUrl(getBaseUrl(b), endpoint, queryParams)]
    /\ UNCHANGED <<heap, own>>
    /\ Called("buildUrl", b, NoError,
              [t |-> "url", endpoint |-> endpoint, queryParams |-> queryParams,
               s |-> buildUrl(getBaseUrl(b), endpoint, queryParams)])

\* buildUrl(endpoint, queryParams)
BuildUrl(b, endpoint, queryParams) ==
    /\ builders[b].live
    /\ UNCHANGED <<builders, heap, own>>
    /\ Called("buildUrl", b, NoError,
              [t |-> "url", endpoint |-> endpoint, queryParams |-> queryParams,
               s |-> buildUrl(getBaseUrl(b), endpoint, queryParams)])

----------------------------------------------------------------------------
(* Inputs.                                                                 *)

\* base URL strings: "", a word without a scheme, a scheme alone, and
\* absolute URLs, each followed by zero to MaxTrailing "/"
UrlStems ==
    { <<>>,
      <<"a", "p">>,
      <<"h", "t", "t", "p", ":">>,
      <<"h", "t", "t", "p", ":", "/", "/", "a">>,
      <<"h", "t", "t", "p", ":", "/", "/", "a", "/", "p">>,
      <<"a", ":", "p">> }
UrlInputs == {stem \o Repeat("/", n) : stem \in UrlStems, n \in 0..MaxTrailing}

\* the base URL of the tests, "https://api.example.com" in short
ExampleUrl == <<"h", "t", "t", "p", ":", "/", "/", "a">>

HeaderKeyInputs == {"Content-Type", "Accept", "Authorization", "", " "}
HeaderValueInputs == {ContentTypeXML, JsNull, JsUndefined}

\* the keys and values used on a builder and its clone
CloneKeyInputs == {"Content-Type", "Authorization", ""}
CloneValueInputs == {ContentTypeXML, JsNull}

TokenInputs == {"my-token"}
CredentialInputs == {[username |-> "user", password |-> "pass"]}

\* arguments of setHeaders: objects of at most MaxEntries entries
RECURSIVE SeqsUpTo(_, _)
SeqsUpTo(S, n) ==
    IF n = 0 THEN {<<>>}
    ELSE LET shorter == SeqsUpTo(S, n - 1)
         IN  shorter \cup {Append(q, x) : q \in {r \in shorter : Len(r) = n - 1}, x \in S}

DistinctKeys(q) == \A i, j \in 1..Len(q) : q[i].k = q[j].k => i = j

HeaderObjects ==
    {q \in SeqsUpTo({Entry(k, v) : k \in {"Accept", "Authorization", ""},
                                   v \in {ContentTypeXML, JsNull}}, MaxEntries) :
        DistinctKeys(q)}

EndpointInputs == {<<>>, <<"/">>, <<"p">>, <<"/", "p">>, <<"/", "/", "p">>}

ParamKeys == {<<"p">>, <<"q">>, <<"k", "=">>}
ParamValues == {NullV, UndefV, Str(<<>>), Str(<<"a", "&">>)}

\* arguments of buildUrl: undefined, null, or an object of at most MaxParams entries
QueryParamInputs ==
    {UndefV, NullV} \cup
    {Obj(q) : q \in {r \in SeqsUpTo({Entry(k, v) : k \in ParamKeys, v \in ParamValues}, MaxParams) :
                        DistinctKeys(r)}}

----------------------------------------------------------------------------
(* The Logger (src/utils/validator.ts). A call of console.log is one       *)
(* record of the output: the message record carries the parts of           *)
(* `[timestamp] [level] [context] message`, the context record the object  *)
(* that is printed after "Context:".                                       *)

\* enum LogLevel, in the order of shouldLog's levels array
LogLevels == <<"DEBUG", "INFO", "WARN", "ERROR">>

\* levels.indexOf(level): the zero-based place, -1 when absent
indexOf(levels, level) ==
    IF \E i \in 1..Len(levels) : levels[i] = level
    THEN (CHOOSE i \in 1..Len(levels) : levels[i] = level) - 1
    ELSE 0 - 1

NoLogger == [live |-> FALSE, context |-> "", logLevel |-> "INFO"]

\* new Logger(context = "K6Test", logLevel = LogLevel.INFO): a parameter
\* left out, or undefined, takes its default
LoggerConstructor(context, logLevel) ==
    [live |-> TRUE,
     context |-> IF context = JsUndefined THEN "K6Test" ELSE context,
     logLevel |-> IF logLevel = JsUndefined THEN "INFO" ELSE logLevel]

\* a shouldLog that lets through only what is above the current level
shouldLogAbove(logLevel, level) == indexOf(LogLevels, level) > indexOf(LogLevels, logLevel)

shouldLog(logLevel, level) == indexOf(LogLevels, level) >= indexOf(LogLevels, logLevel)

\* the truthiness of a value passed as context
IsTruthyObject(v) == v.t \in {"object", "array"}

\* log(entry): the console.log calls it makes, in order
log(lg, entry) ==
    IF ~shouldLog(lg.logLevel, entry.level) THEN <<>>
    ELSE <<[t |-> "message", level |-> entry.level, context |-> lg.context,
            message |-> entry.message]>>
         \o (IF IsTruthyObject(entry.context) /\ KeyCount(entry.context) > 0
             THEN <<[t |-> "Context:", context |-> entry.context]>>
             ELSE <<>>)

\* the output of a logger call, as the result of the step
Console(calls) == [t |-> "console", calls |-> calls]

LoggerCalled(op, args, calls) ==
    /\ last' = [op |-> op, b |-> "none", err |-> NoError, ret |-> Console(calls)]
    /\ arg' = args
    /\ UNCHANGED <<builders, heap, own, held, environmentConfigs, ENV, config>>

NewLogger(context, logLevel) ==
    /\ ~logger.live
    /\ logger' = LoggerConstructor(context, logLevel)
    /\ LoggerCalled("new Logger", [context |-> context, logLevel |-> logLevel], <<>>)

\* debug, info, warn, error: log an entry of the method's own level
LevelOf(method) ==
    CASE method = "debug" -> "DEBUG"
      [] method = "info" -> "INFO"
      [] method = "warn" -> "WARN"
      [] method = "error" -> "ERROR"

Log(method, message, context) ==
    /\ logger.live
    /\ LoggerCalled(method, [message |-> message, context |-> context],
                    log(logger, [level |-> LevelOf(method), message |-> message,
                                 context |-> context]))
    /\ UNCHANGED logger

\* step(step, details): this.info(`STEP: ${step}`, details)
Step(step, details) ==
    /\ logger.live
    /\ LoggerCalled("step", [message |-> step, context |-> details],
                    log(logger, [level |-> "INFO", message |-> "STEP: " \o step,
                                 context |-> details]))
    /\ UNCHANGED logger

SetLogLevel(level) ==
    /\ logger.live
    /\ logger' = [logger EXCEPT !.logLevel = level]
    /\ LoggerCalled("setLogLevel", [level |-> level], <<>>)

GetLogLevel ==
    /\ logger.live
    /\ last' = [op |-> "getLogLevel", b |-> "none", err |-> NoError,
                ret |-> [t |-> "level", level |-> logger.logLevel]]
    /\ arg' = [level |-> logger.logLevel]
    /\ UNCHANGED <<builders, heap, own, held, logger, environmentConfigs, ENV, config>>

----------------------------------------------------------------------------
(* The environment configuration (config/environment.ts).                  *)
(* getEnvironmentConfig returns the object of the module's table itself,   *)
(* so the caller's object and the table's entry are one object: config     *)
(* names the entry the caller keeps.                                       *)

\* enum Environment
Environments == {"local", "development", "staging", "production"}

\* const environmentConfigs, as the module is loaded
BuiltInConfigs ==
    [local |-> [name |-> "local", baseUrl |-> "http://localhost:3000", timeout |-> 30000,
                retryAttempts |-> 1, logLevel |-> "DEBUG", enableMetrics |-> TRUE],
     development |-> [name |-> "development", baseUrl |-> "https://dev-api.example.com",
                      timeout |-> 30000, retryAttempts |-> 2, logLevel |-> "DEBUG",
                      enableMetrics |-> TRUE],
     staging |-> [name |-> "staging", baseUrl |-> "https://staging-api.example.com",
                  timeout |-> 30000, retryAttempts |-> 3, logLevel |-> "INFO",
                  enableMetrics |-> TRUE],
     production |-> [name |-> "production", baseUrl |-> "https://api.example.com",
                     timeout |-> 30000, retryAttempts |-> 3, logLevel |-> "WARN",
                     enableMetrics |-> TRUE]]

\* ENV_VARS: no variable is set
NoVariables == [BASE_URL |-> JsUndefined, ENVIRONMENT |-> JsUndefined, LOG_LEVEL |-> JsUndefined]

\* a variable that is set to a non-empty string
IsProvided(v) == v # JsUndefined /\ v # ""

\* getCurrentEnvironment(): __ENV.ENVIRONMENT || "development", unchecked
getCurrentEnvironment(env) ==
    IF IsProvided(env.ENVIRONMENT) THEN env.ENVIRONMENT ELSE "development"

\* config.baseUrl = ... on a config that is undefined
UndefinedConfigError ==
    [name |-> "TypeError", text |-> "Cannot set properties of undefined",
     about |-> [t |-> "none"]]

\* getEnvironmentConfig(env): the table afterwards, the entry returned
\* ("none" when the table has none), and the error raised
getEnvironmentConfig(configs, env, e) ==
    LET currentEnv == IF e = JsUndefined THEN getCurrentEnvironment(env) ELSE e
    IN  IF currentEnv \notin DOMAIN configs
        THEN [configs |-> configs, entry |-> "none",
              err |-> IF IsProvided(env.BASE_URL) \/ IsProvided(env.LOG_LEVEL)
                      THEN UndefinedConfigError ELSE NoError]
        ELSE LET c1 == IF IsProvided(env.BASE_URL)
                       THEN [configs EXCEPT ![currentEnv].baseUrl = env.BASE_URL]
                       ELSE configs
                 c2 == IF IsProvided(env.LOG_LEVEL)
                       THEN [c1 EXCEPT ![currentEnv].logLevel = env.LOG_LEVEL]
                       ELSE c1
             IN  [configs |-> c2, entry |-> currentEnv, err |-> NoError]

EnvironmentCalled(op, args, err, ret) ==
    /\ last' = [op |-> op, b |-> "none", err |-> err, ret |-> ret]
    /\ arg' = args
    /\ UNCHANGED <<builders, heap, own, held, logger>>

\* const kept = getEnvironmentConfig(e)
GetEnvironmentConfig(e) ==
    LET r == getEnvironmentConfig(environmentConfigs, ENV, e)
    IN  /\ environmentConfigs' = r.configs
        /\ config' = IF Threw(r.err) THEN config ELSE r.entry
        /\ EnvironmentCalled("getEnvironmentConfig", [env |-> e], r.err,
                             IF Threw(r.err) THEN NoResult
                             ELSE IF r.entry = "none" THEN UndefV
                             ELSE [t |-> "config", c |-> r.configs[r.entry]])
        /\ UNCHANGED ENV

\* __ENV[name] = value
SetVariable(name, value) ==
    /\ ENV[name] # value
    /\ ENV' = [ENV EXCEPT ![name] = value]
    /\ EnvironmentCalled("setVariable", [name |-> name, value |-> value], NoError, NoResult)
    /\ UNCHANGED <<environmentConfigs, config>>

\* delete __ENV[name]
UnsetVariable(name) ==
    /\ ENV[name] # JsUndefined
    /\ ENV' = [ENV EXCEPT ![name] = JsUndefined]
    /\ EnvironmentCalled("unsetVariable", [name |-> name], NoError, NoResult)
    /\ UNCHANGED <<environmentConfigs, config>>

\* kept.baseUrl = value, by the caller that keeps a returned object
CallerSetsBaseUrl(value) ==
    /\ config \in DOMAIN environmentConfigs
    /\ environmentConfigs' = [environmentConfigs EXCEPT ![config].baseUrl = value]
    /\ EnvironmentCalled("kept.baseUrl =", [value |-> value], NoError, NoResult)
    /\ UNCHANGED <<ENV, config>>

----------------------------------------------------------------------------
(* Specifications of the header operations: a builder of the example URL   *)
(* alone (Spec), and that builder with a clone of it (SpecClone).          *)

NoBuilders ==
    /\ builders = [b \in BuilderIds |-> NoBuilder]
    /\ heap = [a \in Addrs |-> <<>>]
    /\ own = [b \in BuilderIds |-> <<>>]
    /\ last = [op |-> "none", b |-> "none", err |-> NoError, ret |-> NoResult]
    /\ held = NoHeld
    /\ logger = NoLogger
    /\ environmentConfigs = BuiltInConfigs
    /\ ENV = NoVariables
    /\ config = "none"

Init ==
    /\ NoBuilders
    /\ arg = [url |-> ExampleUrl, endpoint |-> <<>>, queryParams |-> UndefV]

\* the header methods of builder b, with keys and values from the given sets
HeaderOpWith(b, keys, values) ==
    \/ \E k \in keys, v \in values : SetHeader(b, k, v)
    \/ \E q \in HeaderObjects : SetHeaders(b, q)
    \/ \E v \in values : SetContentType(b, v)
    \/ \E token \in TokenInputs : SetBearerToken(b, token)
    \/ \E c \in CredentialInputs : SetBasicAuth(b, c.username, c.password)
    \/ \E k \in keys : RemoveHeader(b, k)
    \/ ClearHeaders(b)
    \/ GetHeaders(b)

HeaderOp(b) == HeaderOpWith(b, HeaderKeyInputs, HeaderValueInputs)

Next ==
    \/ New("b1", ExampleUrl)
    \/ HeaderOp("b1")

Spec == Init /\ [][Next]_vars

NextClone ==
    \/ New("b1", ExampleUrl)
    \/ Clone("b1", "b2")
    \/ \E b \in BuilderIds : HeaderOpWith(b, CloneKeyInputs, CloneValueInputs)

SpecClone == Init /\ [][NextClone]_vars

----------------------------------------------------------------------------
(* Specification of setHeader and removeHeader on keys that differ in case *)
(* only, with values that include the empty string.                        *)

CaseKeyInputs == {"Content-Type", "content-type", "X-Custom", "x-custom", ""}
CaseValueInputs == {ContentTypeXML, "", JsNull}

NextKeys ==
    \/ New("b1", ExampleUrl)
    \/ \E k \in CaseKeyInputs, v \in CaseValueInputs : SetHeader("b1", k, v)
    \/ \E k \in CaseKeyInputs : RemoveHeader("b1", k)
    \/ GetHeaders("b1")

SpecKeys == Init /\ [][NextKeys]_vars

----------------------------------------------------------------------------
(* Specification of a builder and a caller that keeps a mapping returned   *)
(* by getHeaders() and writes to it.                                       *)

\* what the caller writes: a new entry, a changed entry, a deleted entry
CallerKeyInputs == {"X-Caller", "Accept"}
CallerValueInputs == {"text/plain"}

\* the header methods of builder b on a few inputs: each method, with an
\* accepted and a rejected call where it has both
CopyHeaderObjects ==
    {q \in HeaderObjects : Len(q) = 2 /\ q[1].k = "Accept" /\ q[2].k = "Authorization"}

CopyOp(b) ==
    \/ \E k \in {"Authorization", ""} : SetHeader(b, k, ContentTypeXML)
    \/ \E q \in CopyHeaderObjects : SetHeaders(b, q)
    \/ SetContentType(b, ContentTypeXML)
    \/ \E token \in TokenInputs : SetBearerToken(b, token)
    \/ \E c \in CredentialInputs : SetBasicAuth(b, c.username, c.password)
    \/ \E k \in {"Content-Type", "Accept"} : RemoveHeader(b, k)
    \/ ClearHeaders(b)

NextCopy ==
    \/ New("b1", ExampleUrl)
    \/ CopyOp("b1")
    \/ \E op \in {"getHeaders", "getRequestHeaders"} : KeepHeaders("b1", op)
    \/ \E k \in CallerKeyInputs, v \in CallerValueInputs : CallerAssign(k, v)
    \/ CallerDelete("Accept")

SpecCopy == Init /\ [][NextCopy]_vars

----------------------------------------------------------------------------
(* Specification of construction and URL building: builders of every base  *)
(* URL input, built apart or cloned.                                       *)

InitUrl ==
    /\ NoBuilders
    /\ arg \in [url : UrlInputs, endpoint : EndpointInputs, queryParams : QueryParamInputs]

NextUrl ==
    \/ \E b \in BuilderIds : New(b, arg.url)
    \/ \E b, c \in BuilderIds : Clone(b, c)
    \/ \E b \in BuilderIds : GetBaseUrl(b)
    \/ \E b \in BuilderIds : BuildUrl(b, arg.endpoint, arg.queryParams)

SpecUrl == InitUrl /\ [][NextUrl]_vars

----------------------------------------------------------------------------
(* Specification of the Response Validator: the call to make is drawn at   *)
(* the start, and one action per method makes it.                          *)

FieldNames == {"id", "name", "toString"}
TypeNames == {"number", "string", "function", "object", "array"}

\* response bodies: null, undefined, strings, a number, arrays, and objects
\* with the keys id and name
FieldValues == {Num(1), Str(<<"a">>), NullV, UndefV, Arr(<<>>)}
ObjectBodies ==
    {Obj(<<>>)}
    \cup {Obj(<<Entry(k, v)>>) : k \in {"id", "name"}, v \in FieldValues}
    \cup {Obj(<<Entry("id", v), Entry("name", w)>>) : v \in FieldValues, w \in FieldValues}
BodyInputs ==
    {NullV, UndefV, Str(<<>>), Str(<<" ">>), Str(<<"a">>), Num(0), Arr(<<>>), Arr(<<Num(1)>>)}
    \cup ObjectBodies

FieldLists == SeqsUpTo(FieldNames, MaxFields)
SchemaInputs ==
    {q \in SeqsUpTo({Entry(f, ty) : f \in FieldNames, ty \in TypeNames}, MaxFields) : DistinctKeys(q)}

StatusCodes == (0 - MaxStatus)..MaxStatus

\* durations in milliseconds, and NaN
DurationInputs == {Num(n) : n \in (0 - MaxDuration)..MaxDuration} \cup {NaN}
MaxDurationInputs == {UndefV, Num(0), Num(0 - 1), Num(MaxDuration), NaN}
BoundaryCodes == {199, 200, 204, 299, 300, 404, 500}

ValidatorCalls ==
    [fn : {"classify"}, statusCode : StatusCodes]
    \cup [fn : {"hasRequiredFields"}, response : BodyInputs, fields : FieldLists]
    \cup [fn : {"hasExpectedType"}, response : BodyInputs, field : FieldNames,
          expectedType : TypeNames]
    \cup [fn : {"validateSchema"}, response : BodyInputs, schema : SchemaInputs]
    \cup [fn : {"validateResponse"}, statusCode : BoundaryCodes, body : BodyInputs,
          requiredFields : {UndefV} \cup {Arr(f) : f \in FieldLists},
          maxDuration : MaxDurationInputs]
    \cup [fn : {"validateRequiredFields"}, response : BodyInputs, fields : FieldLists]
    \cup [fn : {"meetsPerformanceThresholds"}, responseTime : DurationInputs,
          threshold : DurationInputs]

Returned(op, err, ret) ==
    /\ arg.fn = op
    /\ last.op = "none"
    /\ last' = [op |-> op, b |-> "none", err |-> err, ret |-> ret]
    /\ UNCHANGED <<builders, heap, own, arg, held, elsewhere>>

\* isSuccessful, isClientError and isServerError of one status code
Classify ==
    Returned("classify", NoError,
             [successful |-> isSuccessful(arg.statusCode),
              clientError |-> isClientError(arg.statusCode),
              serverError |-> isServerError(arg.statusCode)])

HasRequiredFields ==
    Returned("hasRequiredFields", NoError, hasRequiredFields(arg.response, arg.fields))

HasExpectedType ==
    LET r == hasExpectedType(arg.response, arg.field, arg.expectedType)
    IN  Returned("hasExpectedType", r.err, IF Threw(r.err) THEN NoResult ELSE Bool(r.ret))

ValidateSchema ==
    LET r == validateSchema(arg.response, arg.schema)
    IN  Returned("validateSchema", r.err, IF Threw(r.err) THEN NoResult ELSE r.ret)

ValidateResponse ==
    Returned("validateResponse", NoError,
             validateResponse(arg.statusCode, arg.body, arg.requiredFields, arg.maxDuration))

ValidateRequiredFields ==
    Returned("validateRequiredFields", NoError,
             validateRequiredFields(arg.response, arg.fields))

MeetsPerformanceThresholds ==
    Returned("meetsPerformanceThresholds", NoError,
             Bool(meetsPerformanceThresholds(arg.responseTime, arg.threshold)))

InitValidator ==
    /\ NoBuilders
    /\ arg \in ValidatorCalls

NextValidator ==
    \/ Classify
    \/ HasRequiredFields
    \/ HasExpectedType
    \/ ValidateSchema
    \/ ValidateResponse
    \/ ValidateRequiredFields
    \/ MeetsPerformanceThresholds

SpecValidator == InitValidator /\ [][NextValidator]_vars

----------------------------------------------------------------------------
(* Specification of the Logger: one logger, made with any level or with    *)
(* the defaults, then any sequence of calls.                               *)

LoggerNames == {JsUndefined, "MyTest"}
LevelInputs == {"DEBUG", "INFO", "WARN", "ERROR"}
MessageInputs == {"Test started", ""}
ContextInputs ==
    {UndefV, NullV, Obj(<<>>), Obj(<<Entry("userId", Num(123))>>),
     Obj(<<Entry("userId", Num(123)), Entry("action", Str(<<"c">>))>>),
     Arr(<<>>), Arr(<<Num(1)>>)}

NextLogger ==
    \/ \E c \in LoggerNames, l \in LevelInputs \cup {JsUndefined} : NewLogger(c, l)
    \/ \E l \in LevelInputs : SetLogLevel(l)
    \/ GetLogLevel
    \/ \E method \in {"debug", "info", "warn", "error"}, m \in MessageInputs,
          c \in ContextInputs : Log(method, m, c)
    \/ \E m \in MessageInputs, c \in ContextInputs : Step(m, c)

SpecLogger == Init /\ [][NextLogger]_vars

----------------------------------------------------------------------------
(* Specification of the environment configuration: calls of                *)
(* getEnvironmentConfig between changes of the environment variables and   *)
(* writes of the caller to the object it was given.                        *)

EnvironmentInputs == {JsUndefined, "local", "production"}
VariableInputs ==
    {<<"BASE_URL", "https://override.example.com">>, <<"LOG_LEVEL", "ERROR">>,
     <<"ENVIRONMENT", "qa">>}

NextEnv ==
    \/ \E e \in EnvironmentInputs : GetEnvironmentConfig(e)
    \/ \E v \in VariableInputs : SetVariable(v[1], v[2])
    \/ \E v \in VariableInputs : UnsetVariable(v[1])
    \/ CallerSetsBaseUrl("https://caller.example.com")

SpecEnv == Init /\ [][NextEnv]_vars

----------------------------------------------------------------------------
(* JSON text: JSON.stringify and JSON.parse on strings of characters.      *)
(* The numbers of the model are integers, and the strings hold none of     *)
(* the characters that JSON writes as \b, \f or \uXXXX.  The keys of the   *)
(* objects that are serialized are strings of characters too.              *)

MaxItems == 2

DigitChars == <<"0", "1", "2", "3", "4", "5", "6", "7", "8", "9">>
IsDigit(c) == \E d \in 1..10 : DigitChars[d] = c
DigitValue(c) == (CHOOSE d \in 1..10 : DigitChars[d] = c) - 1

\* the decimal digits of a natural number
RECURSIVE NaturalChars(_)
NaturalChars(n) ==
    IF n < 10 THEN <<DigitChars[n + 1]>>
    ELSE NaturalChars(n \div 10) \o <<DigitChars[(n % 10) + 1]>>

\* Number.prototype.toString for an integer
NumberChars(n) == IF n < 0 THEN <<"-">> \o NaturalChars(0 - n) ELSE NaturalChars(n)

\* the characters JSON.stringify writes for one character of a string
QuoteChar(c) ==
    CASE c = "\"" -> <<"\\", "\"">>
      [] c = "\\" -> <<"\\", "\\">>
      [] c = "\n" -> <<"\\", "n">>
      [] c = "\t" -> <<"\\", "t">>
      [] c = "\r" -> <<"\\", "r">>
      [] OTHER -> <<c>>

\* a Quote that writes the characters as they are
QuoteUnescaped(s) == s

RECURSIVE Quote(_)
Quote(s) == IF s = <<>> THEN <<>> ELSE QuoteChar(Head(s)) \o Quote(Tail(s))

QuotedString(s) == <<"\"">> \o Quote(s) \o <<"\"">>

\* a value that refers to itself: JSON.stringify throws a TypeError on it
Cyclic == [t |-> "cyclic"]
CircularStructureError ==
    [name |-> "TypeError", text |-> "Converting circular structure to JSON",
     about |-> [t |-> "none"]]

\* values that JSON.stringify leaves out of an object and writes as null
\* in an array
IsOmitted(v) == v.t \in {"undefined", "function"}

\* JSON.stringify(value) with no cycle inside: the text as a string value,
\* or undefined for undefined and for a function
RECURSIVE SerializeJSONProperty(_)
RECURSIVE SerializeJSONArray(_)
RECURSIVE SerializeJSONObject(_)
SerializeJSONProperty(v) ==
    CASE v.t = "null" -> <<"n", "u", "l", "l">>
      [] v.t = "boolean" -> IF v.v THEN <<"t", "r", "u", "e">> ELSE <<"f", "a", "l", "s", "e">>
      [] v.t = "number" -> IF IsNaN(v) THEN <<"n", "u", "l", "l">> ELSE NumberChars(v.n)
      [] v.t = "string" -> QuotedString(v.s)
      [] v.t = "array" -> <<"[">> \o Join(SerializeJSONArray(v.a), <<",">>) \o <<"]">>
      [] v.t = "object" -> <<"{">> \o Join(SerializeJSONObject(v.e), <<",">>) \o <<"}">>

SerializeJSONArray(items) ==
    IF items = <<>> THEN <<>>
    ELSE <<IF IsOmitted(Head(items)) THEN <<"n", "u", "l", "l">>
           ELSE SerializeJSONProperty(Head(items))>>
         \o SerializeJSONArray(Tail(items))

SerializeJSONObject(entries) ==
    IF entries = <<>> THEN <<>>
    ELSE (IF IsOmitted(Head(entries).v) THEN <<>>
          ELSE <<QuotedString(Head(entries).k) \o <<":">>
                 \o SerializeJSONProperty(Head(entries).v)>>)
         \o SerializeJSONObject(Tail(entries))

stringify(value) ==
    IF value = Cyclic THEN [err |-> CircularStructureError, ret |-> UndefV]
    ELSE IF IsOmitted(value) THEN [err |-> NoError, ret |-> UndefV]
    ELSE [err |-> NoError, ret |-> Str(SerializeJSONProperty(value))]

\* throw new Error(`Failed to serialize data to JSON: ${error}`)
SerializationError(error) ==
    [name |-> "Error", text |-> "Failed to serialize data to JSON",
     about |-> [t |-> "error", name |-> error.name, text |-> error.text]]

\* buildPayload(data): JSON.stringify(data), or its error wrapped
buildPayload(data) ==
    LET r == stringify(data)
    IN  IF Threw(r.err) THEN [err |-> SerializationError(r.err), ret |-> NoResult] ELSE r

\* JSON white space
JsonWhitespace == {" ", "\t", "\n", "\r"}

RECURSIVE SkipWhitespace(_, _)
SkipWhitespace(s, i) ==
    IF i <= Len(s) /\ s[i] \in JsonWhitespace THEN SkipWhitespace(s, i + 1) ELSE i

\* the outcome of reading one piece of text: the value read and the place
\* after it, or no value
Failed == [ok |-> FALSE, v |-> NullV, i |-> 0]
Read(v, i) == [ok |-> TRUE, v |-> v, i |-> i]

\* s holds the characters of word from place i on
HasWordAt(s, i, word) ==
    /\ i + Len(word) - 1 <= Len(s)
    /\ SubSeq(s, i, i + Len(word) - 1) = word

\* the character an escape stands for; "" for one that is not an escape
Unescape(c) ==
    CASE c = "\"" -> "\"" [] c = "\\" -> "\\" [] c = "/" -> "/"
      [] c = "n" -> "\n" [] c = "t" -> "\t" [] c = "r" -> "\r"
      [] OTHER -> ""

\* the string after an opening quote: up to the closing quote, escapes
\* replaced; a control character cannot stand in a string as it is
RECURSIVE ParseString(_, _, _)
ParseString(s, i, acc) ==
    IF i > Len(s) THEN Failed
    ELSE IF s[i] = "\"" THEN Read(Str(acc), i + 1)
    ELSE IF s[i] \in {"\n", "\t", "\r"} THEN Failed
    ELSE IF s[i] = "\\"
         THEN IF i + 1 > Len(s) \/ Unescape(s[i + 1]) = "" THEN Failed
              ELSE ParseString(s, i + 2, Append(acc, Unescape(s[i + 1])))
    ELSE ParseString(s, i + 1, Append(acc, s[i]))

\* the digits from place i on, as a number
RECURSIVE ParseDigits(_, _, _)
ParseDigits(s, i, n) ==
    IF i <= Len(s) /\ IsDigit(s[i]) THEN ParseDigits(s, i + 1, 10 * n + DigitValue(s[i]))
    ELSE Read(Num(n), i)

\* an integer: an optional "-", then "0" alone or digits that do not start
\* with "0"
ParseNumber(s, i) ==
    LET neg == s[i] = "-"
        j == IF neg THEN i + 1 ELSE i
    IN  IF j > Len(s) \/ ~IsDigit(s[j]) THEN Failed
        ELSE IF s[j] = "0" THEN Read(Num(0), j + 1)
        ELSE LET r == ParseDigits(s, j, 0)
             IN  IF neg THEN Read(Num(0 - r.v.n), r.i) ELSE r

RECURSIVE ParseValue(_, _)
RECURSIVE ParseElements(_, _, _)
RECURSIVE ParseMembers(_, _, _)

\* a JSON value that starts at place i
ParseValue(s, i) ==
    IF i > Len(s) THEN Failed
    ELSE IF s[i] = "n"
         THEN IF HasWordAt(s, i, <<"n", "u", "l", "l">>) THEN Read(NullV, i + 4) ELSE Failed
    ELSE IF s[i] = "t"
         THEN IF HasWordAt(s, i, <<"t", "r", "u", "e">>) THEN Read(Bool(TRUE), i + 4) ELSE Failed
    ELSE IF s[i] = "f"
         THEN IF HasWordAt(s, i, <<"f", "a", "l", "s", "e">>) THEN Read(Bool(FALSE), i + 5)
              ELSE Failed
    ELSE IF s[i] = "\"" THEN ParseString(s, i + 1, <<>>)
    ELSE IF s[i] = "[" 
         THEN LET j == SkipWhitespace(s, i + 1)
              IN  IF j <= Len(s) /\ s[j] = "]" THEN Read(Arr(<<>>), j + 1)
                  ELSE ParseElements(s, j, <<>>)
    ELSE IF s[i] = "{"
         THEN LET j == SkipWhitespace(s, i + 1)
              IN  IF j <= Len(s) /\ s[j] = "}" THEN Read(Obj(<<>>), j + 1)
                  ELSE ParseMembers(s, j, <<>>)
    ELSE IF s[i] = "-" \/ IsDigit(s[i]) THEN ParseNumber(s, i)
    ELSE Failed

\* the elements of an array from place i on, up to the closing bracket
ParseElements(s, i, items) ==
    LET r == ParseValue(s, i)
        j == SkipWhitespace(s, r.i)
    IN  IF ~r.ok \/ j > Len(s) THEN Failed
        ELSE IF s[j] = "]" THEN Read(Arr(Append(items, r.v)), j + 1)
        ELSE IF s[j] = "," THEN ParseElements(s, SkipWhitespace(s, j + 1), Append(items, r.v))
        ELSE Failed

\* the members of an object from place i on, up to the closing brace; a
\* key that comes again replaces the value of the first
ParseMembers(s, i, entries) ==
    IF i > Len(s) \/ s[i] # "\"" THEN Failed
    ELSE LET k == ParseString(s, i + 1, <<>>)
             c == SkipWhitespace(s, k.i)
         IN  IF ~k.ok \/ c > Len(s) \/ s[c] # ":" THEN Failed
             ELSE LET r == ParseValue(s, SkipWhitespace(s, c + 1))
                      j == SkipWhitespace(s, r.i)
                  IN  IF ~r.ok \/ j > Len(s) THEN Failed
                      ELSE IF s[j] = "}" THEN Read(Obj(Assign(entries, k.v.s, r.v)), j + 1)
                      ELSE IF s[j] = ","
                           THEN ParseMembers(s, SkipWhitespace(s, j + 1),
                                             Assign(entries, k.v.s, r.v))
                      ELSE Failed

SyntaxError == [name |-> "SyntaxError", text |-> "not valid JSON", about |-> [t |-> "none"]]

\* String(text) for what is handed to JSON.parse
ToText(text) ==
    CASE text.t = "string" -> text.s
      [] text.t = "undefined" -> <<"u", "n", "d", "e", "f", "i", "n", "e", "d">>
      [] text.t = "null" -> <<"n", "u", "l", "l">>

\* JSON.parse(text): one value, white space around it, and nothing else
parse(text) ==
    LET s == ToText(text)
        r == ParseValue(s, SkipWhitespace(s, 1))
    IN  IF r.ok /\ SkipWhitespace(s, r.i) = Len(s) + 1
        THEN [err |-> NoError, ret |-> r.v]
        ELSE [err |-> SyntaxError, ret |-> UndefV]

\* a parseJsonSafely that gives undefined when the text does not parse
parseJsonSafelyUndefined(response) ==
    LET r == parse(response) IN IF Threw(r.err) THEN UndefV ELSE r.ret

\* parseJsonSafely(response): the parsed value, null when JSON.parse throws
parseJsonSafely(response) ==
    LET r == parse(response) IN IF Threw(r.err) THEN NullV ELSE r.ret

\* String.prototype.trim() === "" for the white space of the model
RECURSIVE IsAllWhitespace(_)
IsAllWhitespace(s) == s = <<>> \/ (Head(s) \in JsonWhitespace /\ IsAllWhitespace(Tail(s)))

\* isValidJson(response): false for a falsy or blank response, else
\* whether JSON.parse accepts it
isValidJson(response) ==
    IF response.t \in {"null", "undefined"} \/ response.s = <<>> THEN FALSE
    ELSE IF IsAllWhitespace(response.s) THEN FALSE
    ELSE ~Threw(parse(response).err)

\* buildPayload(data) on builder b
BuildPayload(b, data) ==
    /\ builders[b].live
    /\ UNCHANGED <<builders, heap, own>>
    /\ LET r == buildPayload(data)
       IN  Called("buildPayload", b, r.err,
                  IF Threw(r.err) THEN NoResult
                  ELSE [t |-> "payload", data |-> data, s |-> r.ret])

\* parseJsonSafely(response), a static call
ParseJsonSafely(response) ==
    /\ last' = [op |-> "parseJsonSafely", b |-> "none", err |-> NoError,
                ret |-> parseJsonSafely(response)]
    /\ UNCHANGED <<builders, heap, own, arg, held, elsewhere>>

\* isValidJson(response), a static call
IsValidJson(response) ==
    /\ last' = [op |-> "isValidJson", b |-> "none", err |-> NoError,
                ret |-> Bool(isValidJson(response))]
    /\ UNCHANGED <<builders, heap, own, arg, held, elsewhere>>

----------------------------------------------------------------------------
(* Specification of the JSON operations: a value is serialized by          *)
(* buildPayload and the payload handed to parseJsonSafely, or a text is    *)
(* handed to isValidJson and parseJsonSafely.                              *)

JsonScalars ==
    {NullV, Bool(TRUE), Bool(FALSE), Num(0), Num(0 - 7), Num(120), Str(<<>>), Str(<<"a">>),
     Str(<<"a", "\"">>), Str(<<"\\", "n">>), Str(<<"a", "\n", "\t">>)}

\* what an array or an object of the model holds
InnerValues ==
    {NullV, Bool(TRUE), Num(0 - 7), Str(<<"a", "\"">>), Str(<<"\\", "\n">>),
     Arr(<<Num(120), Str(<<",">>)>>), Obj(<<Entry(<<"k">>, Arr(<<NullV>>))>>),
     UndefV, NaN}

JsonKeys == {<<"a">>, <<"b", "\"">>}

DataInputs ==
    JsonScalars \cup {UndefV, NaN, FunctionV, Cyclic}
    \cup {Arr(q) : q \in SeqsUpTo(InnerValues, MaxItems)}
    \cup {Obj(q) : q \in {r \in SeqsUpTo({Entry(k, v) : k \in JsonKeys, v \in InnerValues},
                                        MaxItems) : DistinctKeys(r)}}

TextInputs ==
    {UndefV, NullV,
     Str(<<"n", "u", "l", "l">>),
     Str(<<>>),
     Str(<<" ">>),
     Str(<<"\n">>),
     Str(<<"{">>),
     Str(<<"1">>),
     Str(<<"\"", "a", "\"">>),
     Str(<<"a", "b", "c">>),
     Str(<<" ", "[", "1", ",", " ", "2", "]", " ">>),
     Str(<<"{", "\"", "a", "\"", ":", "1", ",", "\"", "a", "\"", ":", "2", "}">>),
     Str(<<"-">>),
     Str(<<"0", "1">>),
     Str(<<"[", "1", ",", "]">>),
     Str(<<"t", "r", "u", "e">>),
     Str(<<"n", "u", "l">>),
     Str(<<"{", "\"", "a", "\"", " ", "1", "}">>),
     Str(<<"\"", "a", "\\", "\"", "b", "\"">>),
     Str(<<"\"", "a">>),
     Str(<<"{", "}">>),
     Str(<<"[", "n", "u", "l", "l", "]">>),
     Str(<<"-", "1", "2", " ">>),
     Str(<<"1", " ", "2">>)}

InitJson ==
    /\ NoBuilders
    /\ arg \in [data : DataInputs] \cup [text : TextInputs]

NextJson ==
    \/ New("b1", ExampleUrl)
    \/ "data" \in DOMAIN arg /\ BuildPayload("b1", arg.data)
    \/ last.op = "buildPayload" /\ ~Threw(last.err) /\ ParseJsonSafely(last.ret.s)
    \/ "text" \in DOMAIN arg /\ last.op # "parseJsonSafely" /\ ParseJsonSafely(arg.text)
    \/ "text" \in DOMAIN arg /\ last.op # "isValidJson" /\ IsValidJson(arg.text)

SpecJson == InitJson /\ [][NextJson]_vars

----------------------------------------------------------------------------
(* Specification of the read-side operations among the others: a builder   *)
(* and its clone, with header operations, getters, URLs and payloads in    *)
(* any order.                                                              *)

FrameEndpoints == {<<>>, <<"p">>}
FrameQueryParams == {UndefV, Obj(<<Entry(<<"q">>, Str(<<"a", "&">>))>>)}
FrameData == {Obj(<<>>), Obj(<<Entry(<<"a">>, Num(0 - 7))>>), Cyclic}

NextFrame ==
    \/ New("b1", ExampleUrl)
    \/ Clone("b1", "b2")
    \/ CopyOp("b1")
    \/ \E token \in TokenInputs : SetBearerToken("b2", token)
    \/ RemoveHeader("b2", "Accept")
    \/ \E b \in BuilderIds : GetHeaders(b)
    \/ \E b \in BuilderIds : GetRequestHeaders(b)
    \/ \E b \in BuilderIds : GetBaseUrl(b)
    \/ \E b \in BuilderIds, e \in FrameEndpoints, q \in FrameQueryParams : BuildUrl(b, e, q)
    \/ \E b \in BuilderIds, d \in FrameData : BuildPayload(b, d)

SpecFrame == Init /\ [][NextFrame]_vars


----------------------------------------------------------------------------
(* Properties of the Request Builder.                                      *)

MutatingOps ==
    {"setHeader", "setHeaders", "setContentType", "setBearerToken", "setBasicAuth",
     "removeHeader", "clearHeaders"}

\* C1: after a clone, under every interleaving of header operations on the
\* two builders, getHeaders() of each builder is what its own operations
\* alone produce (own is updated from own alone, never from the heap), so an
\* operation on one builder never changes what the other returns.
CloneIndependence == \A b \in Live : getHeaders(b) = own[b]

\* both builders live, the clone made from b1, a header operation just
\* applied, and the two header mappings have moved apart from each other
\* and from the defaults
CloneIndependenceWitness ==
    /\ Live = BuilderIds
    /\ last.op \in MutatingOps
    /\ ~Threw(last.err)
    /\ getHeaders("b1") # getHeaders("b2")
    /\ getHeaders("b1") # DefaultHeaders
    /\ getHeaders("b2") # DefaultHeaders

\* C2: constructing a builder from a string that does not parse as an
\* absolute URL fails with an Error whose message holds "Invalid URL format
\* provided", and no builder is produced.
InvalidUrlRaisesInvalidEndpoint ==
    (last.op = "new" /\ ~ParsesAsUrl(last.ret.s)) =>
        /\ last.err.name = "Error"
        /\ last.err.text = INVALID_URL
        /\ ~builders[last.b].live

\* C3: buildUrl returns the path (base + endpoint with a leading "/") when
\* queryParams is absent, empty or holds only null / undefined / "" values;
\* otherwise the path, "?", and the encoded key=value pairs of exactly the
\* entries that have a value, joined by "&" in the order of the input,
\* wherever the empty entries stand; building from the already filtered
\* mapping gives the same URL.
HasValue(e) == e.v.t = "string" /\ Len(e.v.s) > 0

RECURSIVE KeptPairs(_)
KeptPairs(entries) ==
    IF entries = <<>> THEN <<>>
    ELSE (IF HasValue(Head(entries))
          THEN <<encodeURIComponent(Head(entries).k) \o <<"=">> \o
                 encodeURIComponent(Head(entries).v.s)>>
          ELSE <<>>) \o KeptPairs(Tail(entries))

ExpectedUrl(base, endpoint, queryParams) ==
    LET path == IF Len(endpoint) > 0 /\ endpoint[1] = "/"
                THEN base \o endpoint ELSE base \o <<"/">> \o endpoint
        pairs == IF queryParams.t = "object" THEN KeptPairs(queryParams.e) ELSE <<>>
    IN  IF pairs = <<>> THEN path ELSE path \o <<"?">> \o Join(pairs, <<"&">>)

BuildUrlFiltersEmptyValues ==
    last.op = "buildUrl" =>
        LET base == getBaseUrl(last.b)
            q == last.ret.queryParams
        IN  /\ last.ret.s = ExpectedUrl(base, last.ret.endpoint, q)
            /\ q.t = "object" =>
                 buildUrl(base, last.ret.endpoint, Obj(SelectSeq(q.e, HasValue))) = last.ret.s

\* a call whose first entry is empty and whose second entry has a value
BuildUrlFiltersEmptyValuesWitness ==
    /\ last.op = "buildUrl"
    /\ last.ret.queryParams.t = "object"
    /\ Len(last.ret.queryParams.e) = 2
    /\ last.ret.queryParams.e[1].v = Str(<<>>)
    /\ HasValue(last.ret.queryParams.e[2])
    /\ \E i \in 1..Len(last.ret.s) : last.ret.s[i] = "?"

\* C4: setHeader fails with the key error when the key is empty or blank;
\* with a key that is not blank it fails with the value error when the value
\* is null or undefined (the key is checked first, and a call raises one
\* error); in both cases the header mapping of the builder is what it was.
BlankKeys == {"", " "}

SetHeaderRejectsAndKeeps ==
    [][\A b \in BuilderIds, k \in HeaderKeyInputs, v \in HeaderValueInputs :
          SetHeader(b, k, v) =>
            /\ k \in BlankKeys =>
                 (last'.err = HeaderKeyError /\ getHeaders(b)' = getHeaders(b))
            /\ (k \notin BlankKeys /\ v \in {JsNull, JsUndefined}) =>
                 (last'.err = HeaderValueError(k) /\ getHeaders(b)' = getHeaders(b))]_vars

\* a rejected key on a builder whose headers are no longer the defaults
SetHeaderRejectsAndKeepsWitness ==
    /\ last.op = "setHeader"
    /\ last.err = HeaderKeyError
    /\ getHeaders(last.b) # DefaultHeaders

\* C9: a clone has the base endpoint of the builder it was made from and,
\* at the moment of cloning, equal headers.
CloneHasSameBaseUrl ==
    last.op = "clone" =>
        /\ ~Threw(last.err)
        /\ getBaseUrl(last.b) = getBaseUrl(last.ret.from)
        /\ getHeaders(last.b) = getHeaders(last.ret.from)

\* C10: the stored base endpoint of every constructed builder has no
\* trailing slash.
BaseUrlHasNoTrailingSlash == \A b \in Live : ~EndsWith(getBaseUrl(b), "/")

\* the string with one trailing "/" taken off, when it has one
StripOneSlash(s) == IF Len(s) > 0 /\ s[Len(s)] = "/" THEN SubSeq(s, 1, Len(s) - 1) ELSE s

\* a call buildUrl("") with no query params on the builder constructed from
\* arg.url; in SpecUrl the first builder, b1, is always made by
\* new RequestBuilder(arg.url), never by clone()
EmptyEndpointCall ==
    /\ last.op = "buildUrl"
    /\ last.b = "b1"
    /\ last.ret.endpoint = <<>>
    /\ last.ret.queryParams = UndefV

\* C11 as stated: for a builder constructed from the valid absolute URL b,
\* buildUrl("") with no query params is b with exactly one trailing slash
\* taken off and nothing appended.
BuildUrlEmptyEndpointIsBase == EmptyEndpointCall => last.ret.s = StripOneSlash(arg.url)

\* C11 as amended: for a builder constructed from the valid absolute URL b,
\* buildUrl("") with no query params is b with exactly one trailing slash
\* taken off, followed by a single "/".
BuildUrlEmptyEndpointIsBaseSlash ==
    EmptyEndpointCall => last.ret.s = StripOneSlash(arg.url) \o <<"/">>

\* buildUrl("") on a builder whose input ended in more than one "/"
BuildUrlEmptyEndpointIsBaseSlashWitness ==
    /\ EmptyEndpointCall
    /\ Len(arg.url) >= 2
    /\ arg.url[Len(arg.url)] = "/"
    /\ arg.url[Len(arg.url) - 1] = "/"

\* the number of "/" a string begins with
RECURSIVE LeadingSlashes(_)
LeadingSlashes(s) == IF Len(s) > 0 /\ s[1] = "/" THEN 1 + LeadingSlashes(Tail(s)) ELSE 0

GetHeadersReturnsCopy ==
    [][/\ last'.op \in {"callerAssign", "callerDelete"} =>
            /\ builders' = builders
            /\ \A b \in Live : getHeaders(b)' = getHeaders(b)
       /\ last'.op \in MutatingOps => HeldObject' = HeldObject]_vars

\* the caller has added an entry to the mapping it keeps, the builder has
\* changed its headers since, and the two differ in both directions
GetHeadersReturnsCopyWitness ==
    /\ held.a # "none"
    /\ last.op \in MutatingOps
    /\ ~Threw(last.err)
    /\ HasKey(HeldObject, "X-Caller")
    /\ ~HasKey(getHeaders("b1"), "X-Caller")
    /\ HasKey(getHeaders("b1"), "Authorization")
    /\ ~HasKey(HeldObject, "Authorization")

\* C14: after any sequence of header operations, clearHeaders() leaves the
\* header mapping equal to exactly Content-Type: application/json and
\* Accept: application/json.
ClearHeadersRestoresDefaults ==
    last.op = "clearHeaders" =>
        getHeaders(last.b) = <<Entry("Content-Type", "application/json"),
                               Entry("Accept", "application/json")>>

\* a clearHeaders after the builder had lost its Content-Type and had a
\* custom entry: the mapping the caller took then shows it (the caller
\* itself never deletes Content-Type and never adds Authorization)
ClearHeadersRestoresDefaultsWitness ==
    /\ last.op = "clearHeaders"
    /\ held.a # "none"
    /\ ~HasKey(HeldObject, "Content-Type")
    /\ HasKey(HeldObject, "Authorization")

\* C15: in every state reachable after construction by the header
\* operations, the header mapping of a builder has a Content-Type entry and
\* an Accept entry, and no key twice.
HeadersKeepDefaultsAndUniqueKeys ==
    \A b \in Live :
        /\ HasKey(getHeaders(b), "Content-Type")
        /\ HasKey(getHeaders(b), "Accept")
        /\ DistinctKeys(getHeaders(b))

\* the place of the first entry of q that setHeader rejects, 0 when it
\* accepts them all
Rejected(e) == e.k \in BlankKeys \/ e.v \in {JsNull, JsUndefined}
FirstRejected(q) ==
    IF \E i \in 1..Len(q) : Rejected(q[i])
    THEN CHOOSE i \in 1..Len(q) : Rejected(q[i]) /\ \A j \in 1..(i - 1) : ~Rejected(q[j])
    ELSE 0

\* setHeader applied to the entries of q, one after the other
RECURSIVE ApplyInOrder(_, _)
ApplyInOrder(h, q) ==
    IF q = <<>> THEN h ELSE ApplyInOrder(setHeader(h, Head(q).k, Head(q).v).h, Tail(q))

\* C16: setHeaders(map) applies setHeader to the entries in the order of the
\* map; when the k-th entry is rejected the call fails with the error
\* setHeader raises for that entry, the entries before it stay applied and
\* no entry after it is applied.
SetHeadersAppliesInOrder ==
    [][\A b \in BuilderIds, q \in HeaderObjects :
          SetHeaders(b, q) =>
            LET k == FirstRejected(q)
                applied == IF k = 0 THEN q ELSE SubSeq(q, 1, k - 1)
            IN  /\ getHeaders(b)' = ApplyInOrder(getHeaders(b), applied)
                /\ last'.err = (IF k = 0 THEN NoError
                                ELSE setHeader(getHeaders(b), q[k].k, q[k].v).err)]_vars

\* a call that failed on its Authorization entry after its Accept entry
\* was applied
SetHeadersAppliesInOrderWitness ==
    /\ last.op = "setHeaders"
    /\ last.err = HeaderValueError("Authorization")
    /\ Lookup(getHeaders(last.b), "Accept") = ContentTypeXML
    /\ ~HasKey(getHeaders(last.b), "Authorization")

\* C22: setHeader throws an Error if key or value is empty: a call with a
\* key that is not blank and the empty string as value fails and stores
\* nothing.
SetHeaderRejectsEmptyValue ==
    [][last'.op = "setHeader" =>
         \A b \in BuilderIds, k \in CaseKeyInputs \ BlankKeys :
            SetHeader(b, k, "") =>
                (Threw(last'.err) /\ getHeaders(b)' = getHeaders(b))]_vars

\* every entry of h under another key than k is in h2 with its value, and
\* h2 has no other entry under another key than k
OthersKept(h, h2, k) ==
    /\ Keys(h2) \ {k} = Keys(h) \ {k}
    /\ \A x \in Keys(h) \ {k} : Lookup(h2, x) = Lookup(h, x)

EntriesUnder(h, k) == {i \in 1..Len(h) : h[i].k = k}

\* C24: a successful setHeader(key, value) leaves the mapping with
\* key -> value, removeHeader(key) leaves it without the key and raises
\* nothing whether or not the key was there; both leave every entry under
\* another key, a key that differs in case only included, as it was, and
\* return the builder they were called on.
SetAndRemoveTouchOneKey ==
    [][/\ last'.op = "setHeader" =>
            \A b \in BuilderIds, k \in CaseKeyInputs, v \in CaseValueInputs :
                (SetHeader(b, k, v) /\ ~Threw(last'.err)) =>
                    /\ Cardinality(EntriesUnder(getHeaders(b)', k)) = 1
                    /\ Lookup(getHeaders(b)', k) = v
                    /\ OthersKept(getHeaders(b), getHeaders(b)', k)
                    /\ last'.ret = This(b)
       /\ last'.op = "removeHeader" =>
            \A b \in BuilderIds, k \in CaseKeyInputs :
                RemoveHeader(b, k) =>
                    /\ ~Threw(last'.err)
                    /\ ~HasKey(getHeaders(b)', k)
                    /\ OthersKept(getHeaders(b), getHeaders(b)', k)
                    /\ last'.ret = This(b)]_vars

\* a setHeader on a builder that holds two keys differing in case only,
\* with different values, one of them removed and set again
SetAndRemoveTouchOneKeyWitness ==
    /\ last.op = "setHeader"
    /\ ~Threw(last.err)
    /\ Lookup(getHeaders("b1"), "Content-Type") = ContentTypeXML
    /\ Lookup(getHeaders("b1"), "content-type") = ""
    /\ getHeaders("b1")[Len(getHeaders("b1"))].k = "Content-Type"

\* base64 of username ":" password for the credentials of the model
\* (RFC 4648: "user:pass" encodes to "dXNlcjpwYXNz")
Base64OfCredentials(username, password) ==
    IF username = "user" /\ password = "pass" THEN "dXNlcjpwYXNz" ELSE "?"

\* the mapping holds exactly one Authorization entry, with this value
AuthorizationIs(h, value) ==
    /\ Cardinality(EntriesUnder(h, "Authorization")) = 1
    /\ Lookup(h, "Authorization") = value

\* C25: setBearerToken(token) sets Authorization to "Bearer " + token,
\* setBasicAuth(username, password) sets it to "Basic " + base64 of
\* username ":" password, setHeader("Authorization", v) sets it to v; each
\* leaves exactly one Authorization entry, so the entry holds what the
\* last of these calls wrote: a step that is none of them (and not
\* setHeaders, clearHeaders or a construction) leaves the entry as it was.
AuthorizationHoldsLastWrite ==
    [][/\ last'.op = "setBearerToken" =>
            \A b \in BuilderIds, token \in TokenInputs :
                SetBearerToken(b, token) =>
                    AuthorizationIs(getHeaders(b)', "Bearer " \o token)
       /\ last'.op = "setBasicAuth" =>
            \A b \in BuilderIds, c \in CredentialInputs :
                SetBasicAuth(b, c.username, c.password) =>
                    AuthorizationIs(getHeaders(b)',
                                    "Basic " \o Base64OfCredentials(c.username, c.password))
       /\ last'.op = "setHeader" =>
            \A b \in BuilderIds, v \in {ContentTypeXML} :
                SetHeader(b, "Authorization", v) => AuthorizationIs(getHeaders(b)', v)
       /\ last'.op \notin {"setBearerToken", "setBasicAuth", "setHeader", "setHeaders",
                           "clearHeaders", "new"} =>
            \A b \in Live :
                /\ b \in Live'
                /\ Lookup(getHeaders(b)', "Authorization") = Lookup(getHeaders(b), "Authorization")]_vars

\* a setBasicAuth on a builder that held a bearer token before: the
\* mapping the caller took then still shows the token
AuthorizationHoldsLastWriteWitness ==
    /\ last.op = "setBasicAuth"
    /\ held.a # "none"
    /\ Lookup(HeldObject, "Authorization") = "Bearer my-token"
    /\ AuthorizationIs(getHeaders("b1"), "Basic dXNlcjpwYXNz")

----------------------------------------------------------------------------
(* Properties of the Response Validator.                                   *)

\* the places of the entries of an error list that carry a given text
Places(errors, text) == {i \in 1..Len(errors) : errors[i].text = text}

\* C5: details.errors of validateResponse holds one entry for the status
\* iff isSuccessful is false, one for the body iff hasResponseBody is false,
\* and one for the fields iff requiredFields is a non-empty list and
\* hasRequiredFields is invalid; nothing else; in that order; no failure
\* hides another; and valid is true iff the list is empty.
ValidateResponseAccumulates ==
    last.op = "validateResponse" =>
        LET errors == last.ret.errors
            status == Places(errors, "Invalid status code")
            empty == Places(errors, EMPTY_RESPONSE)
            missing == Places(errors, "Missing required fields")
            listed == arg.requiredFields.t = "array" /\ Len(arg.requiredFields.a) > 0
        IN  /\ Cardinality(status) = (IF isSuccessful(arg.statusCode) THEN 0 ELSE 1)
            /\ Cardinality(empty) = (IF hasResponseBody(arg.body) THEN 0 ELSE 1)
            /\ Cardinality(missing) =
                 (IF listed /\ ~hasRequiredFields(arg.body, arg.requiredFields.a).valid
                  THEN 1 ELSE 0)
            /\ status \cup empty \cup missing = 1..Len(errors)
            /\ \A i \in status, j \in empty \cup missing : i < j
            /\ \A i \in empty, j \in missing : i < j
            /\ last.ret.valid <=> (Len(errors) = 0)

\* a response that fails all three checks at once
ValidateResponseAccumulatesWitness ==
    /\ last.op = "validateResponse"
    /\ Len(last.ret.errors) = 3
    /\ ~last.ret.valid

\* C6: hasExpectedType and validateSchema never raise: for every body, null,
\* undefined and primitives included, hasExpectedType returns false and
\* validateSchema with a non-empty schema returns valid = false.
ValidatorNeverRaises ==
    /\ last.op = "hasExpectedType" =>
         (~Threw(last.err) /\ (~IsObject(arg.response) => last.ret = Bool(FALSE)))
    /\ last.op = "validateSchema" =>
         (~Threw(last.err) /\ ((~IsObject(arg.response) /\ Len(arg.schema) > 0) => ~last.ret.valid))

\* C7: hasRequiredFields of a body that is not a non-null object gives
\* valid = false and every name as missing; of an object it gives, in input
\* order, exactly the names that are not keys of the body, and valid iff
\* there are none.
OwnKeys(body) == IF body.t = "object" THEN Keys(body.e) ELSE {}

HasRequiredFieldsListsMissingKeys ==
    last.op = "hasRequiredFields" =>
        IF ~IsObject(arg.response)
        THEN last.ret = [valid |-> FALSE, missing |-> arg.fields]
        ELSE /\ last.ret.missing =
                  SelectSeq(arg.fields, LAMBDA f : f \notin OwnKeys(arg.response))
             /\ last.ret.valid <=> (last.ret.missing = <<>>)

\* C8: for every integer status code, isSuccessful iff 200..299,
\* isClientError iff 400..499, isServerError iff 500..599; at most one of the
\* three is true; a code in 200..299 is successful and nothing else.
StatusClassesPartition ==
    last.op = "classify" =>
        LET code == arg.statusCode
            r == last.ret
        IN  /\ r.successful <=> (200 <= code /\ code <= 299)
            /\ r.clientError <=> (400 <= code /\ code <= 499)
            /\ r.serverError <=> (500 <= code /\ code <= 599)
            /\ Cardinality({x \in {"s", "c", "e"} :
                              \/ x = "s" /\ r.successful
                              \/ x = "c" /\ r.clientError
                              \/ x = "e" /\ r.serverError}) <= 1
            /\ (200 <= code /\ code <= 299) =>
                 (r.successful /\ ~r.clientError /\ ~r.serverError)

\* the last successful code, classified
StatusClassesPartitionWitness ==
    /\ last.op = "classify"
    /\ arg.statusCode = 299
    /\ last.ret.successful
    /\ ~last.ret.clientError

\* the value body has under key f, for a key of the body
OwnValue(body, f) == body.e[CHOOSE i \in 1..Len(body.e) : body.e[i].k = f].v

\* C17: for a non-null object body, validateRequiredFields is valid iff
\* every name is a key of the body with a value that is neither null nor
\* undefined; details.missingFields is exactly the names that are not keys,
\* details.nullFields exactly the keys whose value is null or undefined,
\* both in input order and disjoint; and whenever it is valid,
\* hasRequiredFields of the same arguments is valid.
ValidateRequiredFieldsIsStricter ==
    (last.op = "validateRequiredFields" /\ IsObject(arg.response)) =>
        LET body == arg.response
            Absent(f) == f \notin OwnKeys(body)
            Null(f) == f \in OwnKeys(body) /\ OwnValue(body, f).t \in {"null", "undefined"}
        IN  /\ last.ret.valid <=> (\A i \in 1..Len(arg.fields) :
                                      ~Absent(arg.fields[i]) /\ ~Null(arg.fields[i]))
            /\ last.ret.details.missingFields = SelectSeq(arg.fields, Absent)
            /\ last.ret.details.nullFields = SelectSeq(arg.fields, Null)
            /\ \A i \in 1..Len(last.ret.details.missingFields) :
                  \A j \in 1..Len(last.ret.details.nullFields) :
                    last.ret.details.missingFields[i] # last.ret.details.nullFields[j]
            /\ last.ret.valid => hasRequiredFields(body, arg.fields).valid

\* the runtime type name of a value, arrays reporting as "array"
TypeName(v) ==
    CASE v.t = "array" -> "array"
      [] v.t = "null" -> "object"
      [] OTHER -> v.t

\* a (field, expectedTypeName) pair passes on body: the field is a key of
\* the body and its value has that type name
PairPasses(body, f, ty) ==
    /\ f \in OwnKeys(body)
    /\ TypeName(OwnValue(body, f)) = ty

Failing(body, schema) == SelectSeq(schema, LAMBDA e : ~PairPasses(body, e.k, e.v))

\* C18: hasExpectedType is false when the field is absent and otherwise
\* true iff the type name of the field's value equals expectedTypeName;
\* validateSchema is valid iff every pair of the schema passes, and
\* details.errors has one entry for each failing field, in schema order,
\* and none for a passing field.
ValidateSchemaListsFailingFields ==
    /\ last.op = "hasExpectedType" =>
         /\ ~Threw(last.err)
         /\ last.ret = Bool(PairPasses(arg.response, arg.field, arg.expectedType))
    /\ last.op = "validateSchema" =>
         /\ ~Threw(last.err)
         /\ LET failing == Failing(arg.response, arg.schema)
            IN  /\ last.ret.valid <=> (failing = <<>>)
                /\ last.ret.errors = [i \in 1..Len(failing) |-> FieldFailedMessage(failing[i].k)]

\* C19: meetsPerformanceThresholds(observed, threshold) is false when
\* observed < 0 or threshold < 0, and otherwise true iff
\* observed <= threshold.
MeetsThresholdIsNonStrict ==
    last.op = "meetsPerformanceThresholds" =>
        LET observed == arg.responseTime
            threshold == arg.threshold
            Negative(x) == ~IsNaN(x) /\ x.n < 0
        IN  /\ (Negative(observed) \/ Negative(threshold)) => last.ret = Bool(FALSE)
            /\ ~(Negative(observed) \/ Negative(threshold)) =>
                  last.ret = Bool(~IsNaN(observed) /\ ~IsNaN(threshold)
                                  /\ observed.n <= threshold.n)

\* the boundary: an observed duration of 0 against a threshold of 0
MeetsThresholdIsNonStrictWitness ==
    /\ last.op = "meetsPerformanceThresholds"
    /\ arg.responseTime = Num(0)
    /\ arg.threshold = Num(0)
    /\ last.ret = Bool(TRUE)

\* C20: validateResponse does not enforce maxDuration: for every
\* statusCode, body and requiredFields, the result with any other
\* maxDuration (absent, 0, negative) is the result of the call made.
MaxDurationIsNotEnforced ==
    last.op = "validateResponse" =>
        \A d \in MaxDurationInputs :
            validateResponse(arg.statusCode, arg.body, arg.requiredFields, d) = last.ret

\* a call with a negative maxDuration that passes
MaxDurationIsNotEnforcedWitness ==
    /\ last.op = "validateResponse"
    /\ arg.maxDuration = Num(0 - 1)
    /\ last.ret.valid

\* C27: for every body, object or not, and every list of names, the empty
\* list included, hasRequiredFields gives valid = true iff missing is empty.
HasRequiredFieldsValidIffNoneMissing ==
    last.op = "hasRequiredFields" => (last.ret.valid <=> (last.ret.missing = <<>>))

\* C27, amended: valid = true iff the body is a non-null object and missing
\* is empty; a body that is not a non-null object gives valid = false with
\* missing = the whole list, which is empty when the list is.
HasRequiredFieldsValidIffObjectAndNoneMissing ==
    last.op = "hasRequiredFields" =>
        /\ last.ret.valid <=> (IsObject(arg.response) /\ last.ret.missing = <<>>)
        /\ ~IsObject(arg.response) => last.ret.missing = arg.fields

HasRequiredFieldsValidIffObjectAndNoneMissingWitness ==
    /\ last.op = "hasRequiredFields"
    /\ arg.response = NullV
    /\ arg.fields = <<>>
    /\ last.ret = [valid |-> FALSE, missing |-> <<>>]

\* C28: whenever validateResponse(statusCode, body, requiredFields) is
\* valid with requiredFields supplied (possibly empty), isSuccessful of the
\* status, hasResponseBody of the body and hasRequiredFields of the body
\* and the list are all true.
ValidateResponseAgreesWithChecks ==
    (last.op = "validateResponse" /\ arg.requiredFields.t = "array" /\ last.ret.valid) =>
        /\ isSuccessful(arg.statusCode)
        /\ hasResponseBody(arg.body)
        /\ hasRequiredFields(arg.body, arg.requiredFields.a).valid

\* C28, amended: whenever validateResponse is valid with requiredFields
\* supplied, isSuccessful and hasResponseBody are true, and hasRequiredFields
\* is valid when the list is not empty; an empty list is not checked.
ValidateResponseAgreesWithChecksMade ==
    (last.op = "validateResponse" /\ arg.requiredFields.t = "array" /\ last.ret.valid) =>
        /\ isSuccessful(arg.statusCode)
        /\ hasResponseBody(arg.body)
        /\ Len(arg.requiredFields.a) > 0 =>
              hasRequiredFields(arg.body, arg.requiredFields.a).valid

ValidateResponseAgreesWithChecksMadeWitness ==
    /\ last.op = "validateResponse"
    /\ last.ret.valid
    /\ arg.statusCode = 200
    /\ arg.body = Str(<<"a">>)
    /\ arg.requiredFields = Arr(<<>>)
    /\ ~hasRequiredFields(arg.body, arg.requiredFields.a).valid

----------------------------------------------------------------------------
(* Properties of the Logger.                                               *)

\* the place of a level in DEBUG < INFO < WARN < ERROR
Rank(level) ==
    CASE level = "DEBUG" -> 1 [] level = "INFO" -> 2 [] level = "WARN" -> 3 [] level = "ERROR" -> 4

----------------------------------------------------------------------------
(* Properties of the environment configuration.                            *)

\* C30: a call getEnvironmentConfig(e) made while neither BASE_URL nor
\* LOG_LEVEL is set returns the built-in baseUrl and logLevel of e, whatever
\* calls, changes of the variables and writes to returned objects came before.
OverridesDoNotLeak ==
    (/\ last.op = "getEnvironmentConfig"
     /\ arg.env \in Environments
     /\ ENV.BASE_URL = JsUndefined
     /\ ENV.LOG_LEVEL = JsUndefined) =>
        /\ last.ret.t = "config"
        /\ last.ret.c.baseUrl = BuiltInConfigs[arg.env].baseUrl
        /\ last.ret.c.logLevel = BuiltInConfigs[arg.env].logLevel

----------------------------------------------------------------------------
(* Properties of the JSON operations.                                      *)

\* a value that JSON can write: null, booleans, numbers other than NaN,
\* strings, and arrays and objects of such values
RECURSIVE IsJsonValue(_)
IsJsonValue(x) ==
    CASE x.t \in {"null", "boolean", "string"} -> TRUE
      [] x.t = "number" -> ~IsNaN(x)
      [] x.t = "array" -> \A i \in 1..Len(x.a) : IsJsonValue(x.a[i])
      [] x.t = "object" -> \A i \in 1..Len(x.e) : IsJsonValue(x.e[i].v)
      [] OTHER -> FALSE

\* equal in kind and contents, the keys of an object in any order
RECURSIVE DeepEqual(_, _)
DeepEqual(x, y) ==
    /\ x.t = y.t
    /\ CASE x.t = "array" ->
              /\ Len(x.a) = Len(y.a)
              /\ \A i \in 1..Len(x.a) : DeepEqual(x.a[i], y.a[i])
         [] x.t = "object" ->
              /\ Len(x.e) = Len(y.e)
              /\ \A i \in 1..Len(x.e) :
                    \E j \in 1..Len(y.e) : /\ x.e[i].k = y.e[j].k
                                           /\ DeepEqual(x.e[i].v, y.e[j].v)
         [] OTHER -> x = y

\* C21: for every JSON-serializable value x, scalars, arrays, objects and
\* nested ones, parseJsonSafely(buildPayload(x)) is deep-equal to x.
PayloadRoundTrip ==
    [][(/\ last'.op = "parseJsonSafely"
        /\ last.op = "buildPayload"
        /\ IsJsonValue(arg.data)) =>
            /\ last.ret.s = buildPayload(arg.data).ret
            /\ DeepEqual(last'.ret, arg.data)]_vars

\* an object of a string with a quote and of a nested object has come back
PayloadRoundTripWitness ==
    /\ last.op = "parseJsonSafely"
    /\ "data" \in DOMAIN arg
    /\ arg.data = Obj(<<Entry(<<"a">>, Str(<<"a", "\"">>)),
                        Entry(<<"b", "\"">>, Obj(<<Entry(<<"k">>, Arr(<<NullV>>))>>))>>)
    /\ last.ret = arg.data

\* C29: parseJsonSafely(t) is null iff t does not parse as JSON, and
\* whenever isValidJson(t) is true parseJsonSafely(t) is not null.
NullMeansParseFailure ==
    /\ (last.op = "parseJsonSafely" /\ "text" \in DOMAIN arg) =>
          ((last.ret = NullV) <=> Threw(parse(arg.text).err))
    /\ (last.op = "isValidJson" /\ last.ret = Bool(TRUE)) =>
          parseJsonSafely(arg.text) # NullV

----------------------------------------------------------------------------
(* Properties of the read-side operations.                                 *)

ReadSideOps ==
    {"buildUrl", "buildPayload", "getHeaders", "getRequestHeaders", "getBaseUrl", "clone"}

\* C26: buildUrl, buildPayload, getHeaders, getRequestHeaders, getBaseUrl
\* and clone leave the base endpoint and the header mapping of every
\* builder as they were; no operation changes the base endpoint of a
\* builder after construction; the URL of buildUrl(e, q) is a function of
\* the base endpoint, e and q, and the text of buildPayload(x) a function
\* of x, whatever the headers are and whatever was called before.
ReadSideLeavesBuilderAlone ==
    [][/\ \A b \in Live : builders'[b].live /\ getBaseUrl(b)' = getBaseUrl(b)
       /\ last'.op \in ReadSideOps => \A b \in Live : getHeaders(b)' = getHeaders(b)
       /\ last'.op = "buildUrl" =>
            last'.ret.s = ExpectedUrl(getBaseUrl(last'.b), last'.ret.endpoint,
                                      last'.ret.queryParams)
       /\ (last'.op = "buildPayload" /\ ~Threw(last'.err)) =>
            last'.ret.s = stringify(last'.ret.data).ret
       /\ last'.op = "getBaseUrl" => last'.ret = Str(getBaseUrl(last'.b))]_vars

\* a URL built on the clone after headers were set on both builders
ReadSideLeavesBuilderAloneWitness ==
    /\ Live = BuilderIds
    /\ last.op = "buildUrl"
    /\ last.b = "b2"
    /\ getHeaders("b1") # getHeaders("b2")
    /\ getHeaders("b2") # DefaultHeaders
    /\ getBaseUrl("b2") = ExampleUrl
    /\ last.ret.s = ExampleUrl \o <<"/", "p", "?", "q", "=", "a", "%", "2", "6">>

====
